---- MODULE Spec2Model ----
(***************************************************************************)
(* Verification model of the eclipse_scalper trading engine:               *)
(*   - brain/persistence.py + brain/state.py  (crash-safe Brain snapshots) *)
(*   - execution/distributed_lock.py          (file-backed instance lock)  *)
(*   - data/cache.py                          (OHLCV rings, truth guard)   *)
(*   - execution/time_exit.py                 (time-based forced exits)    *)
(*   - brain/state.py on its own              (validate, equity, round trip)*)
(*   - data/cache.py, the ticker slot         (get_price)                   *)
(*   - execution/distributed_lock.py          (Redis locks, fail-open)      *)
(*   - execution/heartbeat.py                 (stale components, alerts)    *)
(*   - execution/slippage_estimator.py        (order book walk)             *)
(*   - strategies/ml_predictor.py             (online training, ML gate)    *)
(*   - data/cache.py + data/websocket_stream.py (shutdown of the loops)     *)
(* Each subsystem has its own specification over the shared variables.     *)
(***************************************************************************)
EXTENDS Integers, Sequences, FiniteSets, TLC

VARIABLES
    \* ---- Brain persistence (brain/persistence.py) ----
    state,        \* the in-memory PsycheState of the running process
    disk,         \* file name -> file content (main, .bak1-3, .tmp)
    ioLock,       \* holder of _IO_LOCK: "free" or the id of a save/load call
    diskFailed,   \* _disk_failed
    memFallback,  \* _memory_fallback_payload
    sv,           \* save_brain calls in progress: id -> frame
    ld,           \* the load_brain call in progress
    hist,         \* history of the run (counters, crash record)
    \* ---- File instance lock (execution/distributed_lock.py) ----
    lockFs,       \* lock directory: lock file inode, flock owners, info file
    mgr,          \* FileLockManager per process
    lockNow,      \* wall clock, seconds
    \* ---- Data oracle (data/cache.py) ----
    ohlcv,        \* the ring of candles of one (K, tf) slot
    lastPollMono, \* _last_poll_mono of the slot (0 = never stamped)
    mono,         \* monotonic clock, seconds
    poll,         \* the poll_ohlcv task of the slot, and the slot's tf
    lastCall,     \* the public call made by the last step, with its result
    \* ---- Time exit (execution/time_exit.py) ----
    positions,    \* bot.state.positions as seen by the exit loop
    wall,         \* wall clock, minutes
    orders,       \* orders submitted to the exchange through the router
    texit,        \* the check_and_execute_time_exits call in progress
    \* ---- PsycheState on its own (brain/state.py) ----
    psyche,       \* a PsycheState object with all the fields validate() repairs
    trace,        \* the last call made on it: name, state before, bookkeeping
    \* ---- Services, one record each ----
    tick,         \* data/cache.py: the ticker slot of one symbol K
    redis,        \* distributed_lock.py: the Redis server and its lock managers
    hb,           \* heartbeat.py: the HeartbeatMonitor and its clock
    slip,         \* slippage_estimator.py: the last estimate_slippage call
    ml,           \* ml_predictor.py: the OnlinePredictor and the SignalFilter
    loops,        \* the poll and stream loops and their shutdown signals
    derived,      \* data/cache.py: the 1m, 5m and 15m rings of one symbol K
    bot           \* bot-backend/bot/manager.py: the BotManager and its tasks

brainVars == <<state, disk, ioLock, diskFailed, memFallback, sv, ld, hist>>
lockVars  == <<lockFs, mgr, lockNow>>
cacheVars == <<ohlcv, lastPollMono, mono, poll, lastCall>>
exitVars  == <<positions, wall, orders, texit>>
psycheVars == <<psyche, trace>>
serviceVars == <<tick, redis, hb, slip, ml, loops, derived, bot>>
coreVars == <<brainVars, lockVars, cacheVars, exitVars, psycheVars>>
vars == <<brainVars, lockVars, cacheVars, exitVars, psycheVars, serviceVars>>
nonBrain == <<lockVars, cacheVars, exitVars, psycheVars, serviceVars>>
nonLock  == <<brainVars, cacheVars, exitVars, psycheVars, serviceVars>>
nonCache == <<brainVars, lockVars, exitVars, psycheVars, serviceVars>>
nonExit  == <<brainVars, lockVars, cacheVars, psycheVars, serviceVars>>
nonPsyche == <<brainVars, lockVars, cacheVars, exitVars, serviceVars>>
nonTick  == <<coreVars, redis, hb, slip, ml, loops, derived, bot>>
nonRedis == <<coreVars, tick, hb, slip, ml, loops, derived, bot>>
nonHb    == <<coreVars, tick, redis, slip, ml, loops, derived, bot>>
nonSlip  == <<coreVars, tick, redis, hb, ml, loops, derived, bot>>
nonMl    == <<coreVars, tick, redis, hb, slip, loops, derived, bot>>
nonLoops == <<coreVars, tick, redis, hb, slip, ml, derived, bot>>
nonDerived == <<coreVars, tick, redis, hb, slip, ml, loops, bot>>
nonBot   == <<coreVars, tick, redis, hb, slip, ml, loops, derived>>

\* a service that is not part of the specification being checked
TickIdle  == tick = <<>>
RedisIdle == redis = <<>>
HbIdle    == hb = <<>>
SlipIdle  == slip = <<>>
MlIdle    == ml = <<>>
LoopsIdle == loops = <<>>
DerivedIdle == derived = <<>>
BotIdle   == bot = <<>>
LateIdle  == DerivedIdle /\ BotIdle
ServicesIdle ==
    TickIdle /\ RedisIdle /\ HbIdle /\ SlipIdle /\ MlIdle /\ LoopsIdle
        /\ LateIdle

(***************************************************************************)
(* Strings are sequences of one-character strings, so that the canonical   *)
(* symbol law can be computed the way the code computes it.                *)
(***************************************************************************)
Lower == <<"a","b","c","d","e","f","g","h","i","j","k","l","m",
           "n","o","p","q","r","s","t","u","v","w","x","y","z">>
UpperLetters == <<"A","B","C","D","E","F","G","H","I","J","K","L","M",
           "N","O","P","Q","R","S","T","U","V","W","X","Y","Z">>

\* str.upper() on one character
UpperChar(c) ==
    IF \E i \in 1..26 : Lower[i] = c
    THEN UpperLetters[CHOOSE i \in 1..26 : Lower[i] = c]
    ELSE c

StrUpper(s) == [i \in 1..Len(s) |-> UpperChar(s[i])]

\* str.strip(): drop leading and trailing whitespace
RECURSIVE LStrip(_)
LStrip(s) == IF s # <<>> /\ s[1] = " " THEN LStrip(Tail(s)) ELSE s
RECURSIVE RStrip(_)
RStrip(s) ==
    IF s # <<>> /\ s[Len(s)] = " " THEN RStrip(SubSeq(s, 1, Len(s) - 1)) ELSE s
StrStrip(s) == RStrip(LStrip(s))

\* str.replace(old, new): left to right, non-overlapping (old is non-empty)
RECURSIVE StrReplace(_, _, _)
StrReplace(s, old, new) ==
    IF Len(s) < Len(old) THEN s
    ELSE IF SubSeq(s, 1, Len(old)) = old
         THEN new \o StrReplace(SubSeq(s, Len(old) + 1, Len(s)), old, new)
         ELSE <<s[1]>> \o StrReplace(Tail(s), old, new)

StrEndsWith(s, suf) ==
    Len(s) >= Len(suf) /\ SubSeq(s, Len(s) - Len(suf) + 1, Len(s)) = suf

USDT == <<"U","S","D","T">>

\* _symkey: the canonical symbol law ('' is the empty sequence)
Symkey(sym) ==
    LET s0 == StrUpper(StrStrip(sym))
        s1 == StrReplace(s0, <<"/">> \o USDT \o <<":">> \o USDT, USDT)
        s2 == StrReplace(s1, <<"/">> \o USDT, USDT)
        s3 == StrReplace(s2, <<":">> \o USDT, USDT)
        s4 == StrReplace(s3, <<":">>, <<>>)
        s5 == StrReplace(s4, <<"/">>, <<>>)
    IN  IF s0 = <<>> THEN <<>>
        ELSE IF StrEndsWith(s5, USDT \o USDT)
             THEN SubSeq(s5, 1, Len(s5) - 4)
             ELSE s5

\* The symbols the model trades: one market in its ccxt futures form and in
\* its canonical form.
SYM_FUT   == <<"B","T","C","/","U","S","D","T",":","U","S","D","T">>
SYM_CANON == <<"B","T","C","U","S","D","T">>
RawSyms == {SYM_FUT, SYM_CANON}

(***************************************************************************)
(* Python dicts keep insertion order: a dict is a sequence of [k, v]       *)
(* entries with distinct keys.                                             *)
(***************************************************************************)
DictKeys(d) == {d[i].k : i \in 1..Len(d)}
DictHas(d, key) == \E i \in 1..Len(d) : d[i].k = key
DictGet(d, key) == d[CHOOSE i \in 1..Len(d) : d[i].k = key].v
\* d[key] = val: overwrite in place, or append a new entry
DictSet(d, key, val) ==
    IF DictHas(d, key)
    THEN [i \in 1..Len(d) |-> IF d[i].k = key THEN [k |-> key, v |-> val] ELSE d[i]]
    ELSE Append(d, [k |-> key, v |-> val])
\* del d[key]
DictDel(d, key) == SelectSeq(d, LAMBDA e : e.k # key)

Abs(x) == IF x < 0 THEN -x ELSE x

(***************************************************************************)
(* brain/state.py: Position, PsycheState and their repair on validate().   *)
(* The fields kept are the ones persistence round-trips and the claims     *)
(* read: positions (side, size, entry_ts, symbol), blacklist, total_trades.*)
(* A missing symbol (None) is the empty sequence.                          *)
(***************************************************************************)
MergeMax(a, b) == IF a >= b THEN a ELSE b

\* Position.validate
PositionValidate(p) ==
    [side     |-> IF p.side \in {"long", "short"} THEN p.side ELSE "long",
     size     |-> Abs(p.size),
     entry_ts |-> p.entry_ts,
     symbol   |-> Symkey(p.symbol)]

\* _canon_map_keys(m, merge_fn=_merge_max)
RECURSIVE CanonMapKeysFrom(_, _)
CanonMapKeysFrom(rest, out) ==
    IF rest = <<>> THEN out
    ELSE LET ck == Symkey(Head(rest).k)
             v  == Head(rest).v
         IN  IF ck = <<>> THEN CanonMapKeysFrom(Tail(rest), out)
             ELSE IF DictHas(out, ck)
                  THEN CanonMapKeysFrom(Tail(rest),
                                        DictSet(out, ck, MergeMax(DictGet(out, ck), v)))
                  ELSE CanonMapKeysFrom(Tail(rest), DictSet(out, ck, v))
CanonMapKeys(m) == CanonMapKeysFrom(m, <<>>)

\* _merge_positions_canon: canonical keys, newest entry_ts wins a collision
RECURSIVE MergePositionsFrom(_, _)
MergePositionsFrom(rest, out) ==
    IF rest = <<>> THEN out
    ELSE LET k == Symkey(Head(rest).k)
             p == [PositionValidate(Head(rest).v) EXCEPT !.symbol = k]
         IN  IF k = <<>> THEN MergePositionsFrom(Tail(rest), out)
             ELSE IF ~DictHas(out, k)
                  THEN MergePositionsFrom(Tail(rest), DictSet(out, k, p))
                  ELSE IF p.entry_ts >= DictGet(out, k).entry_ts
                       THEN MergePositionsFrom(Tail(rest), DictSet(out, k, p))
                       ELSE MergePositionsFrom(Tail(rest), out)
MergePositionsCanon(pos_map) == MergePositionsFrom(pos_map, <<>>)

\* _safe_int: negative values fall back to the default 0
SafeInt(x) == IF x >= 0 THEN x ELSE 0

\* PsycheState.validate
Validate(st) ==
    [positions    |-> MergePositionsCanon(st.positions),
     blacklist    |-> CanonMapKeys(st.blacklist),
     total_trades |-> SafeInt(st.total_trades)]

\* PsycheState(): the state of a freshly started process
FreshState == [positions |-> <<>>, blacklist |-> <<>>, total_trades |-> 0]

\* PsycheState.to_dict: validate(), then asdict()
ToDict(st) == Validate(st)

\* PsycheState.from_loaded on a payload dict (schema_version 3: no migration)
FromLoaded(obj) == Validate(obj)

(***************************************************************************)
(* brain/persistence.py: payload shaping                                   *)
(***************************************************************************)
\* _canon_positions_map: the dict-level twin of _merge_positions_canon
RECURSIVE CanonPositionsFrom(_, _)
CanonPositionsFrom(rest, out) ==
    IF rest = <<>> THEN out
    ELSE LET ck  == Symkey(Head(rest).k)
             pv  == Head(rest).v
             pv2 == [pv EXCEPT !.symbol = ck, !.size = Abs(pv.size)]
         IN  IF ck = <<>> THEN CanonPositionsFrom(Tail(rest), out)
             ELSE IF ~DictHas(out, ck)
                  THEN CanonPositionsFrom(Tail(rest), DictSet(out, ck, pv2))
                  ELSE IF pv2.entry_ts >= DictGet(out, ck).entry_ts
                       THEN CanonPositionsFrom(Tail(rest), DictSet(out, ck, pv2))
                       ELSE CanonPositionsFrom(Tail(rest), out)
CanonPositionsMap(pos) == CanonPositionsFrom(pos, <<>>)

\* _canonicalize_payload_state
CanonicalizePayloadState(s) ==
    [positions    |-> CanonPositionsMap(s.positions),
     blacklist    |-> CanonMapKeys(s.blacklist),
     total_trades |-> s.total_trades]

\* _state_to_payload: to_dict() (which validates the state in place), then
\* canonicalization
StateToPayload(st) == CanonicalizePayloadState(ToDict(st))

\* _migrate_payload_state
MigratePayloadState(payload) == CanonicalizePayloadState(payload)

\* _apply_state_in_place(dst, src): copy the fields, then dst.validate()
ApplyStateInPlace(src) == Validate(src)

(***************************************************************************)
(* brain/persistence.py: envelope and files                                *)
(***************************************************************************)
PERSISTENCE_VERSION == "god-emperor-immortal-v4.5-2026-jan06"

ACCEPTED_VERSIONS ==
    {"god-emperor-immortal-v1.0-2025-dec26",
     "god-emperor-immortal-v4.0-2026-jan04",
     "god-emperor-immortal-v4.1-2026-jan05",
     "god-emperor-immortal-v4.2-2026-jan05",
     "god-emperor-immortal-v4.3-2026-jan06",
     "god-emperor-immortal-v4.4-2026-jan06",
     "god-emperor-immortal-v4.4c-2026-jan06",
     PERSISTENCE_VERSION}

MAX_BACKUPS == 3

\* File names: BRAIN_PATH, BRAIN_PATH.bak<i>, BRAIN_PATH.tmp
MainPath == <<"main", 0>>
TmpPath  == <<"tmp", 0>>
BakPath(i) == <<"bak", i>>
Files == {MainPath, TmpPath} \cup {BakPath(i) : i \in 1..MAX_BACKUPS}
\* load_brain's candidate i: main for 0, .bak<i> otherwise
LoadPath(i) == IF i = 0 THEN MainPath ELSE BakPath(i)

\* File contents: no file, a torn write (empty or partial bytes), an envelope.
NoFile == [kind |-> "none"]
Torn   == [kind |-> "torn"]
Exists(d, f) == d[f].kind # "none"

\* lz4.frame.compress / decompress and sha256 are a lossless wrapper and an
\* injective digest of the bytes.
Lz4Compress(bytes)  == [lz4 |-> bytes]
Lz4Decompress(blob) == blob.lz4
Sha256Hex(b) == [sha |-> b]

\* _pack_envelope over msgpack({v, state})
PackEnvelope(data) ==
    [kind     |-> "env",
     checksum |-> Sha256Hex(Lz4Compress(data)),
     blob     |-> Lz4Compress(data)]

\* an unpacking that trusts the blob without hashing it
UnpackEnvelopeUnchecked(raw) ==
    IF raw.kind = "env" THEN [ok |-> TRUE, blob |-> raw.blob] ELSE [ok |-> FALSE]

\* _unpack_envelope: None for bytes that do not unpack or whose blob does not
\* hash to the stored checksum
UnpackEnvelope(raw) ==
    IF raw.kind = "env" /\ Sha256Hex(raw.blob) = raw.checksum
    THEN [ok |-> TRUE, blob |-> raw.blob]
    ELSE [ok |-> FALSE]

\* The bytes save_brain writes for a state
EnvelopeOf(payload_state) ==
    PackEnvelope([v |-> PERSISTENCE_VERSION, state |-> payload_state])

\* load_brain's checks on one candidate file: envelope, then version
Loadable(raw) ==
    /\ raw.kind # "none"
    /\ UnpackEnvelope(raw).ok
    /\ Lz4Decompress(UnpackEnvelope(raw).blob).v \in ACCEPTED_VERSIONS

\* The state load_brain installs from a loadable file
LoadedState(raw) ==
    ApplyStateInPlace(FromLoaded(MigratePayloadState(
        Lz4Decompress(UnpackEnvelope(raw).blob).state)))

NoPayload == [none |-> TRUE]

(***************************************************************************)
(* Bounds of the persistence model                                         *)
(***************************************************************************)
MaxSaves     == 2   \* save_brain calls made by the application
MaxLoads     == 1   \* load_brain calls made at run time (boot loads are extra)
MaxMutations == 1   \* position opens/closes
MaxFaults    == 2   \* file operations that fail
MaxCrashes   == 1   \* process crashes (each followed by a restart)

\* Callers of save_brain: the application's save task, a second task of the
\* application whose save may overlap the first one's (shutdown, the
\* periodic saver), and the save that load_brain itself issues to heal main
\* after loading a backup.
Savers  == {"app"}
Overlapping == {"app", "task2"}
SaveIds == Overlapping \cup {"heal"}

\* A save_brain frame. pre (main as the save found it), failed (the steps
\* that failed so far), flagAtGate (_disk_failed as the gate read it) and
\* last (how the previous call ended) record the call for the properties.
IdleFrame ==
    [pc |-> "idle", force |-> FALSE, payload |-> NoPayload, i |-> 0,
     pre |-> NoFile, failed |-> {}, flagAtGate |-> FALSE, last |-> "none"]

\* the frame of a call that has returned
Returned(f, how) ==
    [IdleFrame EXCEPT !.force = f.force, !.flagAtGate = f.flagAtGate, !.last = how]

IdleLoad ==
    [pc |-> "idle", i |-> 0, result |-> FALSE, src |-> -1, restart |-> FALSE]

NoCrash == [inSave |-> FALSE, old |-> NoFile, new |-> NoPayload, at |-> "none"]

\* The steps of _atomic_write that run without an await between them: no
\* other task of the event loop runs while a save is inside them.
SyncPcs == {"rot_move", "main_bak", "tmp_main", "rollback", "unlink_tmp"}
FilePcs == {"open_tmp", "write_tmp", "rot_unlink"} \cup SyncPcs

NoSyncSection == \A t \in SaveIds : sv[t].pc \notin SyncPcs
\* The supervisor starts the tasks only after the boot load has returned.
Booted == ~(ld.restart /\ ld.pc # "done")

\* Snapshots left on disk by earlier runs, told apart by total_trades; each
\* holds one open position.
OldSnapshot(n) ==
    [positions    |-> <<[k |-> SYM_CANON,
                         v |-> [side |-> "long", size |-> 1, entry_ts |-> 0,
                                symbol |-> SYM_CANON]]>>,
     blacklist    |-> <<>>,
     total_trades |-> n]
SnapshotEnv(n) == EnvelopeOf(OldSnapshot(n))
\* written by an older release whose version is still accepted
OldVersionEnv(n) ==
    PackEnvelope([v |-> "god-emperor-immortal-v4.4c-2026-jan06", state |-> OldSnapshot(n)])
\* written by a release this one does not know
UnknownVersionEnv(n) ==
    PackEnvelope([v |-> "god-emperor-immortal-v9.9-unknown", state |-> OldSnapshot(n)])
\* bytes changed after the checksum was taken
CorruptEnv(n) ==
    [SnapshotEnv(n) EXCEPT !.blob =
        Lz4Compress([v |-> PERSISTENCE_VERSION, state |-> OldSnapshot(n + 100)])]

InitFile(n, c) ==
    CASE c = 0 -> NoFile
      [] c = 1 -> SnapshotEnv(n)
      [] c = 2 -> UnknownVersionEnv(n)
      [] c = 3 -> CorruptEnv(n)
      [] OTHER -> OldVersionEnv(n)

\* The disks a starting process may find: any mix of missing, valid,
\* unknown-version and corrupt files (main may also be of an older release).
InitDisks ==
    {[f \in Files |->
        IF f = TmpPath THEN NoFile
        ELSE IF f = MainPath THEN InitFile(13, m)
        ELSE InitFile(13 - f[2], b[f[2]])] :
     m \in 0..4, b \in [1..MAX_BACKUPS -> 0..3]}

\* The disks of an installation that has been running: main and .bak1 from
\* the last two saves, or not yet written.
RunDisks ==
    {[f \in Files |->
        IF f = MainPath THEN InitFile(13, m)
        ELSE IF f = BakPath(1) THEN InitFile(12, b)
        ELSE NoFile] :
     m \in 0..1, b \in 0..1}

BrainInit ==
    /\ state = FreshState
    /\ disk \in RunDisks
    /\ ioLock = "free"
    /\ diskFailed = FALSE
    /\ memFallback = NoPayload
    /\ sv = [t \in SaveIds |-> IdleFrame]
    /\ ld = IdleLoad
    /\ hist = [nSaves |-> 0, nLoads |-> 0, nMut |-> 0, nFaults |-> 0,
               nCrashes |-> 0, crash |-> NoCrash]

(***************************************************************************)
(* The application mutating the Brain (entry engine / exit manager)        *)
(***************************************************************************)
OpenPosition(r) ==
    /\ Booted /\ NoSyncSection
    /\ hist.nMut < MaxMutations
    /\ ~DictHas(state.positions, r)
    /\ state' = [state EXCEPT !.positions =
                    DictSet(@, r, [side |-> "long", size |-> 1,
                                   entry_ts |-> hist.nMut + 1, symbol |-> r])]
    /\ hist' = [hist EXCEPT !.nMut = @ + 1]
    /\ UNCHANGED <<disk, ioLock, diskFailed, memFallback, sv, ld>>
    /\ UNCHANGED nonBrain

ClosePosition(r) ==
    /\ Booted /\ NoSyncSection
    /\ hist.nMut < MaxMutations
    /\ DictHas(state.positions, r)
    /\ state' = [state EXCEPT !.positions = DictDel(@, r),
                              !.blacklist = DictSet(@, r, hist.nMut + 1),
                              !.total_trades = @ + 1]
    /\ hist' = [hist EXCEPT !.nMut = @ + 1]
    /\ UNCHANGED <<disk, ioLock, diskFailed, memFallback, sv, ld>>
    /\ UNCHANGED nonBrain

(***************************************************************************)
(* save_brain and _atomic_write, one action per file operation             *)
(***************************************************************************)
\* a file operation may fail (the failure budget bounds the model)
Outcomes == IF hist.nFaults < MaxFaults THEN {TRUE, FALSE} ELSE {TRUE}
Fault(ok) == IF ok THEN hist ELSE [hist EXCEPT !.nFaults = @ + 1]

SaveCall(t, force) ==
    /\ Booted /\ NoSyncSection
    /\ sv[t].pc = "idle"
    /\ hist.nSaves < MaxSaves
    /\ sv' = [sv EXCEPT ![t] = [IdleFrame EXCEPT !.pc = "acquire", !.force = force]]
    /\ hist' = [hist EXCEPT !.nSaves = @ + 1]
    /\ UNCHANGED <<state, disk, ioLock, diskFailed, memFallback, ld>>
    /\ UNCHANGED nonBrain

\* a gate that forgets the force argument
SaveGateIgnoresForce(force) == diskFailed

\* save_brain's gate under the lock
SaveGateSkipsDisk(force) == diskFailed /\ ~force

\* a save_brain whose body does not wait for _IO_LOCK
SaveAcquireUnlocked(t) ==
    /\ sv[t].pc = "acquire"
    /\ state' = Validate(state)
    /\ IF SaveGateSkipsDisk(sv[t].force)
       THEN /\ memFallback' = StateToPayload(state)
            /\ sv' = [sv EXCEPT ![t] = Returned([@ EXCEPT !.flagAtGate = TRUE], "memory")]
            /\ UNCHANGED ioLock
       ELSE /\ ioLock' = t
            /\ sv' = [sv EXCEPT ![t] = [@ EXCEPT !.pc = "open_tmp",
                                                 !.payload = StateToPayload(state),
                                                 !.pre = disk[MainPath],
                                                 !.flagAtGate = diskFailed]]
            /\ UNCHANGED memFallback
    /\ UNCHANGED <<disk, diskFailed, ld, hist>>
    /\ UNCHANGED nonBrain

\* async with _IO_LOCK, the not-forced gate, and the serialization
SaveAcquire(t) ==
    /\ sv[t].pc = "acquire"
    /\ ioLock = "free"
    /\ state' = Validate(state)
    /\ IF SaveGateSkipsDisk(sv[t].force)
       THEN /\ memFallback' = StateToPayload(state)
            /\ sv' = [sv EXCEPT ![t] = Returned([@ EXCEPT !.flagAtGate = TRUE], "memory")]
            /\ UNCHANGED ioLock
       ELSE /\ ioLock' = t
            /\ sv' = [sv EXCEPT ![t] = [@ EXCEPT !.pc = "open_tmp",
                                                 !.payload = StateToPayload(state),
                                                 !.pre = disk[MainPath],
                                                 !.flagAtGate = diskFailed]]
            /\ UNCHANGED memFallback
    /\ UNCHANGED <<disk, diskFailed, ld, hist>>
    /\ UNCHANGED nonBrain

\* save_brain's except branch: the save returns without raising
SaveFailed(t, d, h) ==
    /\ diskFailed' = TRUE
    /\ memFallback' = StateToPayload(state)
    /\ state' = Validate(state)
    /\ ioLock' = "free"
    /\ disk' = d
    /\ hist' = h
    /\ sv' = [sv EXCEPT ![t] = Returned(@, "failed")]
    /\ UNCHANGED ld

\* aiofiles.open(tmp, "wb"): creates or truncates tmp
SaveOpenTmp(t) ==
    /\ sv[t].pc = "open_tmp"
    /\ \E ok \in Outcomes :
        IF ok
        THEN /\ disk' = [disk EXCEPT ![TmpPath] = Torn]
             /\ sv' = [sv EXCEPT ![t].pc = "write_tmp"]
             /\ UNCHANGED <<state, ioLock, diskFailed, memFallback, ld, hist>>
        ELSE SaveFailed(t, disk, Fault(ok))
    /\ UNCHANGED nonBrain

\* f.write(data), flush, close, fsync
SaveWriteTmp(t) ==
    /\ sv[t].pc = "write_tmp"
    /\ \E ok \in Outcomes :
        IF ok
        THEN /\ disk' = [disk EXCEPT ![TmpPath] = EnvelopeOf(sv[t].payload)]
             /\ sv' = [sv EXCEPT ![t].pc = "rot_unlink"]
             /\ UNCHANGED <<state, ioLock, diskFailed, memFallback, ld, hist>>
        ELSE SaveFailed(t, disk, Fault(ok))
    /\ UNCHANGED nonBrain

\* _rotate_backups: unlink the oldest backup (errors swallowed)
SaveRotUnlink(t) ==
    /\ sv[t].pc = "rot_unlink"
    /\ \E ok \in Outcomes :
        /\ disk' = IF ok THEN [disk EXCEPT ![BakPath(MAX_BACKUPS)] = NoFile] ELSE disk
        /\ ~ok => Exists(disk, BakPath(MAX_BACKUPS))
        /\ hist' = Fault(ok)
        /\ sv' = [sv EXCEPT ![t] = [@ EXCEPT !.pc = "rot_move", !.i = MAX_BACKUPS - 1,
                      !.failed = IF ok THEN @ ELSE @ \cup {"rotate"}]]
    /\ UNCHANGED <<state, ioLock, diskFailed, memFallback, ld>>
    /\ UNCHANGED nonBrain

\* rename src over dst when src exists and the operation succeeds
Rename(d, src, dst, ok) ==
    IF Exists(d, src) /\ ok
    THEN [d EXCEPT ![dst] = d[src], ![src] = NoFile]
    ELSE d

\* _rotate_backups: .bak<i> -> .bak<i+1> for i = MAX_BACKUPS-1 .. 1
SaveRotMove(t) ==
    /\ sv[t].pc = "rot_move"
    /\ \E ok \in Outcomes :
        /\ ~ok => Exists(disk, BakPath(sv[t].i))
        /\ disk' = Rename(disk, BakPath(sv[t].i), BakPath(sv[t].i + 1), ok)
        /\ hist' = Fault(ok)
        /\ sv' = [sv EXCEPT ![t] = [@ EXCEPT
                      !.pc = IF sv[t].i = 1 THEN "main_bak" ELSE "rot_move",
                      !.i = @ - 1,
                      !.failed = IF ok THEN @ ELSE @ \cup {"rotate"}]]
    /\ UNCHANGED <<state, ioLock, diskFailed, memFallback, ld>>
    /\ UNCHANGED nonBrain

\* if main_existed: os.replace(path, bak1), errors swallowed
SaveMainBak(t) ==
    /\ sv[t].pc = "main_bak"
    /\ \E ok \in Outcomes :
        /\ ~ok => Exists(disk, MainPath)
        /\ disk' = Rename(disk, MainPath, BakPath(1), ok)
        /\ hist' = Fault(ok)
        /\ sv' = [sv EXCEPT ![t] = [@ EXCEPT !.pc = "tmp_main",
                      !.failed = IF ok THEN @ ELSE @ \cup {"main_bak"}]]
    /\ UNCHANGED <<state, ioLock, diskFailed, memFallback, ld>>
    /\ UNCHANGED nonBrain

\* os.replace(tmp, path); on success the save commits and returns
SaveTmpMain(t) ==
    /\ sv[t].pc = "tmp_main"
    /\ \E ok \in Outcomes :
        /\ hist' = Fault(ok)
        /\ IF ok
           THEN /\ disk' = Rename(disk, TmpPath, MainPath, TRUE)
                /\ diskFailed' = FALSE
                /\ memFallback' = NoPayload
                /\ ioLock' = "free"
                /\ sv' = [sv EXCEPT ![t] = Returned(@, "saved")]
           ELSE /\ sv' = [sv EXCEPT ![t] = [@ EXCEPT !.pc = "rollback",
                                                     !.failed = @ \cup {"tmp_main"}]]
                /\ UNCHANGED <<disk, diskFailed, memFallback, ioLock>>
    /\ UNCHANGED <<state, ld>>
    /\ UNCHANGED nonBrain

\* rollback: if os.path.exists(bak1): os.replace(bak1, path), errors swallowed
SaveRollback(t) ==
    /\ sv[t].pc = "rollback"
    /\ \E ok \in Outcomes :
        /\ ~ok => Exists(disk, BakPath(1))
        /\ disk' = Rename(disk, BakPath(1), MainPath, ok)
        /\ hist' = Fault(ok)
        /\ sv' = [sv EXCEPT ![t] = [@ EXCEPT !.pc = "unlink_tmp",
                      !.failed = IF ok THEN @ ELSE @ \cup {"rollback"}]]
    /\ UNCHANGED <<state, ioLock, diskFailed, memFallback, ld>>
    /\ UNCHANGED nonBrain

\* rollback: unlink tmp (errors swallowed), then re-raise into save_brain
SaveUnlinkTmp(t) ==
    /\ sv[t].pc = "unlink_tmp"
    /\ \E ok \in Outcomes :
        /\ ~ok => Exists(disk, TmpPath)
        /\ SaveFailed(t, IF ok THEN [disk EXCEPT ![TmpPath] = NoFile] ELSE disk,
                      Fault(ok))
    /\ UNCHANGED nonBrain

(***************************************************************************)
(* load_brain                                                              *)
(***************************************************************************)
LoadCall ==
    /\ NoSyncSection
    /\ ld.pc \in {"idle", "done"}
    /\ hist.nLoads < MaxLoads
    /\ ld' = [IdleLoad EXCEPT !.pc = "acquire"]
    /\ hist' = [hist EXCEPT !.nLoads = @ + 1]
    /\ UNCHANGED <<state, disk, ioLock, diskFailed, memFallback, sv>>
    /\ UNCHANGED nonBrain

\* async with _IO_LOCK, then 1) the memory fallback
LoadAcquire ==
    /\ ld.pc = "acquire"
    /\ ioLock = "free"
    /\ ioLock' = "load"
    /\ IF memFallback # NoPayload
       THEN /\ state' = ApplyStateInPlace(FromLoaded(MigratePayloadState(memFallback)))
            /\ memFallback' = NoPayload
            /\ ld' = [ld EXCEPT !.pc = "ret", !.result = TRUE, !.src = -1]
       ELSE /\ ld' = [ld EXCEPT !.pc = "scan", !.i = 0]
            /\ UNCHANGED <<state, memFallback>>
    /\ UNCHANGED <<disk, diskFailed, sv, hist>>
    /\ UNCHANGED nonBrain

\* 2) one turn of the loop over main and the backups
LoadScan ==
    /\ ld.pc = "scan"
    /\ IF ld.i > MAX_BACKUPS
       THEN \* no brain found
            /\ ld' = [ld EXCEPT !.pc = "ret", !.result = FALSE]
            /\ UNCHANGED <<state, diskFailed, sv>>
       ELSE LET raw == disk[LoadPath(ld.i)]
                env == UnpackEnvelope(raw)
            IN  IF \/ ~Exists(disk, LoadPath(ld.i))
                   \/ ~env.ok
                   \/ Lz4Decompress(env.blob).v \notin ACCEPTED_VERSIONS
                THEN \* continue with the next candidate
                     /\ ld' = [ld EXCEPT !.i = @ + 1]
                     /\ UNCHANGED <<state, diskFailed, sv>>
                ELSE /\ state' = LoadedState(raw)
                     /\ diskFailed' = FALSE
                     /\ IF ld.i # 0
                        THEN \* heal forward: await save_brain(state, force=True)
                             /\ ld' = [ld EXCEPT !.pc = "await_heal", !.result = TRUE,
                                                 !.src = ld.i]
                             /\ sv' = [sv EXCEPT !["heal"] =
                                          [IdleFrame EXCEPT !.pc = "acquire", !.force = TRUE]]
                        ELSE /\ ld' = [ld EXCEPT !.pc = "ret", !.result = TRUE, !.src = 0]
                             /\ UNCHANGED sv
    /\ UNCHANGED <<disk, ioLock, memFallback, hist>>
    /\ UNCHANGED nonBrain

\* return: leaves the async with block, which releases _IO_LOCK
LoadReturn ==
    /\ \/ ld.pc = "ret"
       \/ ld.pc = "await_heal" /\ sv["heal"].pc = "idle"
    /\ ld' = [ld EXCEPT !.pc = "done"]
    /\ ioLock' = "free"
    /\ UNCHANGED <<state, disk, diskFailed, memFallback, sv, hist>>
    /\ UNCHANGED nonBrain

(***************************************************************************)
(* Process crash and restart: memory is lost, the files stay, and the      *)
(* supervisor of the new process loads the Brain before anything else.     *)
(***************************************************************************)
Crash ==
    /\ hist.nCrashes < MaxCrashes
    /\ state' = FreshState
    /\ ioLock' = "free"
    /\ diskFailed' = FALSE
    /\ memFallback' = NoPayload
    /\ sv' = [t \in SaveIds |-> IdleFrame]
    /\ ld' = [IdleLoad EXCEPT !.pc = "acquire", !.restart = TRUE]
    /\ hist' = [hist EXCEPT
          !.nCrashes = @ + 1,
          !.crash = IF \E t \in SaveIds : sv[t].pc \in FilePcs
                    THEN LET t == CHOOSE u \in SaveIds : sv[u].pc \in FilePcs
                         IN  [inSave |-> TRUE, old |-> sv[t].pre,
                              new |-> sv[t].payload, at |-> sv[t].pc]
                    ELSE NoCrash]
    /\ UNCHANGED disk
    /\ UNCHANGED nonBrain

SaveStep(t) ==
    \/ SaveAcquire(t)
    \/ SaveOpenTmp(t)
    \/ SaveWriteTmp(t)
    \/ SaveRotUnlink(t)
    \/ SaveRotMove(t)
    \/ SaveMainBak(t)
    \/ SaveTmpMain(t)
    \/ SaveRollback(t)
    \/ SaveUnlinkTmp(t)

\* Everything the load_brain call can do next, its nested save included
LoadProgress ==
    \/ LoadAcquire
    \/ LoadScan
    \/ LoadReturn
    \/ SaveStep("heal")

BrainNext ==
    \/ \E r \in RawSyms : OpenPosition(r)
    \/ \E r \in RawSyms : ClosePosition(r)
    \/ \E t \in Savers, force \in BOOLEAN : SaveCall(t, force)
    \/ \E t \in SaveIds : SaveAcquire(t)
    \/ \E t \in SaveIds : SaveOpenTmp(t)
    \/ \E t \in SaveIds : SaveWriteTmp(t)
    \/ \E t \in SaveIds : SaveRotUnlink(t)
    \/ \E t \in SaveIds : SaveRotMove(t)
    \/ \E t \in SaveIds : SaveMainBak(t)
    \/ \E t \in SaveIds : SaveTmpMain(t)
    \/ \E t \in SaveIds : SaveRollback(t)
    \/ \E t \in SaveIds : SaveUnlinkTmp(t)
    \/ LoadCall
    \/ LoadAcquire
    \/ LoadScan
    \/ LoadReturn
    \/ Crash


(***************************************************************************)
(* execution/distributed_lock.py: FileLockManager, instance lock.          *)
(* Two bot processes share one lock directory. The lock file is a path     *)
(* that names an inode; flock() is held on an inode, so a holder keeps its *)
(* lock on the old inode when the path is removed and created again.       *)
(***************************************************************************)
Procs == {"A", "B"}

\* DistributedLockConfig.stale_lock_sec
STALE_LOCK_SEC == 120

LockTick    == 60    \* seconds the clock advances in one step
MaxLockTime == 240   \* last instant of the model's clock

NoInfo == [id |-> "", ts |-> -1]
InfoExists == lockFs.info # NoInfo

\* the inode numbers in use: the one the path names, and the locked ones
InodesInUse == {lockFs.file} \cup {lockFs.flock[p] : p \in Procs}
FreshInode == CHOOSE i \in 1..(Cardinality(Procs) + 1) :
                 /\ i \notin InodesInUse
                 /\ \A j \in 1..(i - 1) : j \in InodesInUse

IdleMgr == [pc |-> "idle", held |-> 0, result |-> FALSE]

LockInit ==
    /\ lockFs = [file |-> 0, flock |-> [p \in Procs |-> 0], info |-> NoInfo]
    /\ mgr = [p \in Procs |-> IdleMgr]
    /\ lockNow = 0

\* acquire_instance_lock(timeout=0): "already held" returns True at once
AcquireCall(p) ==
    /\ mgr[p].pc = "idle"
    /\ mgr' = [mgr EXCEPT ![p] = IF mgr[p].held # 0
                                 THEN [@ EXCEPT !.result = TRUE]
                                 ELSE [@ EXCEPT !.pc = "flock"]]
    /\ UNCHANGED <<lockFs, lockNow>>
    /\ UNCHANGED nonLock

\* FileLock(lock_path).acquire(timeout=0): open the path (creating the file
\* when it is missing) and flock it without blocking; Timeout when another
\* process holds the flock of that inode
FlockTry(p) ==
    /\ mgr[p].pc = "flock"
    /\ LET ino == IF lockFs.file = 0 THEN FreshInode ELSE lockFs.file
       IN  IF \E q \in Procs : lockFs.flock[q] = ino
           THEN /\ mgr' = [mgr EXCEPT ![p].pc = "stale_check"]
                /\ UNCHANGED lockFs
           ELSE /\ lockFs' = [lockFs EXCEPT !.file = ino, !.flock[p] = ino]
                /\ mgr' = [mgr EXCEPT ![p].pc = "write_info"]
    /\ UNCHANGED lockNow
    /\ UNCHANGED nonLock

\* write "<instance_id>\n<time.time()>" to the info file, keep the lock
WriteInfo(p) ==
    /\ mgr[p].pc = "write_info"
    /\ lockFs' = [lockFs EXCEPT !.info = [id |-> p, ts |-> lockNow]]
    /\ mgr' = [mgr EXCEPT ![p] = [pc |-> "idle", held |-> lockFs.flock[p],
                                  result |-> TRUE]]
    /\ UNCHANGED lockNow
    /\ UNCHANGED nonLock

\* _is_lock_stale: no info file, or an info file older than stale_lock_sec
IsLockStale ==
    IF ~InfoExists THEN TRUE
    ELSE lockNow - lockFs.info.ts > STALE_LOCK_SEC

\* except Timeout: stale => force release and acquire again, else False
StaleCheck(p) ==
    /\ mgr[p].pc = "stale_check"
    /\ mgr' = [mgr EXCEPT ![p] = IF IsLockStale
                                 THEN [@ EXCEPT !.pc = "force_lock"]
                                 ELSE [@ EXCEPT !.pc = "idle", !.result = FALSE]]
    /\ UNCHANGED <<lockFs, lockNow>>
    /\ UNCHANGED nonLock

\* _force_release_lock: os.remove(lock_path)
ForceRemoveLock(p) ==
    /\ mgr[p].pc = "force_lock"
    /\ lockFs' = [lockFs EXCEPT !.file = 0]
    /\ mgr' = [mgr EXCEPT ![p].pc = "force_info"]
    /\ UNCHANGED lockNow
    /\ UNCHANGED nonLock

\* _force_release_lock: os.remove(info_path), then acquire_instance_lock again
ForceRemoveInfo(p) ==
    /\ mgr[p].pc = "force_info"
    /\ lockFs' = [lockFs EXCEPT !.info = NoInfo]
    /\ mgr' = [mgr EXCEPT ![p].pc = "flock"]
    /\ UNCHANGED lockNow
    /\ UNCHANGED nonLock

\* release_instance_lock: lock.release()
ReleaseCall(p) ==
    /\ mgr[p].pc = "idle" /\ mgr[p].held # 0
    /\ lockFs' = [lockFs EXCEPT !.flock[p] = 0]
    /\ mgr' = [mgr EXCEPT ![p].pc = "release_info"]
    /\ UNCHANGED lockNow
    /\ UNCHANGED nonLock

\* release_instance_lock: remove the info file, _instance_lock = None
ReleaseInfo(p) ==
    /\ mgr[p].pc = "release_info"
    /\ lockFs' = [lockFs EXCEPT !.info = NoInfo]
    /\ mgr' = [mgr EXCEPT ![p] = [@ EXCEPT !.pc = "idle", !.held = 0]]
    /\ UNCHANGED lockNow
    /\ UNCHANGED nonLock

\* time passes; every process stays alive
LockClock ==
    /\ lockNow + LockTick <= MaxLockTime
    /\ lockNow' = lockNow + LockTick
    /\ UNCHANGED <<lockFs, mgr>>
    /\ UNCHANGED nonLock

LockNext ==
    \/ \E p \in Procs : AcquireCall(p)
    \/ \E p \in Procs : FlockTry(p)
    \/ \E p \in Procs : WriteInfo(p)
    \/ \E p \in Procs : StaleCheck(p)
    \/ \E p \in Procs : ForceRemoveLock(p)
    \/ \E p \in Procs : ForceRemoveInfo(p)
    \/ \E p \in Procs : ReleaseCall(p)
    \/ \E p \in Procs : ReleaseInfo(p)
    \/ LockClock


(***************************************************************************)
(* data/cache.py: GodEmperorDataOracle, one (K, tf) slot of the OHLCV      *)
(* cache. A candle is [ts, c]: its open time counted in bars of the slot's *)
(* timeframe, and its close. The writers of the slot are the poll_ohlcv    *)
(* task (with its _heal_gaps) and the WebSocket callback; rings of the     *)
(* model stay under the 200 bars _derive_higher_tf asks for, so that call  *)
(* returns at its first check.                                             *)
(***************************************************************************)
MAX_CANDLES == 3   \* ring cap (1200 in the source, scaled down)
MaxTs       == 4   \* candle open times run over 1..MaxTs
MaxFetch    == 3   \* rows in one REST response

OHLCV_STALE_SEC_1M  == 120
OHLCV_STALE_SEC_5M  == 600
OHLCV_STALE_SEC_15M == 1800

Tfs == {"1m", "5m", "15m"}

\* a threshold table that knows only the 1m row
TfStaleSecFlat(tf) == OHLCV_STALE_SEC_1M

\* _tf_stale_sec
TfStaleSec(tf) ==
    IF tf = "1m" THEN OHLCV_STALE_SEC_1M
    ELSE IF tf = "5m" THEN OHLCV_STALE_SEC_5M
    ELSE IF tf = "15m" THEN OHLCV_STALE_SEC_15M
    ELSE OHLCV_STALE_SEC_1M

\* rows[-n:]
TailN(rows, n) ==
    IF Len(rows) <= n THEN rows ELSE SubSeq(rows, Len(rows) - n + 1, Len(rows))

\* DataFrame.drop_duplicates(subset=["ts"]): the first row of each ts stays
RECURSIVE DropDuplicates(_, _)
DropDuplicates(rows, seen) ==
    IF rows = <<>> THEN <<>>
    ELSE IF Head(rows).ts \in seen
         THEN DropDuplicates(Tail(rows), seen)
         ELSE <<Head(rows)>> \o DropDuplicates(Tail(rows), seen \cup {Head(rows).ts})

\* DataFrame.sort_values("ts") on rows of distinct ts
RECURSIVE SortByTs(_)
SortByTs(rows) ==
    IF rows = <<>> THEN <<>>
    ELSE LET m == CHOOSE i \in 1..Len(rows) :
                     \A j \in 1..Len(rows) : rows[i].ts <= rows[j].ts
         IN  <<rows[m]>> \o
             SortByTs(SubSeq(rows, 1, m - 1) \o SubSeq(rows, m + 1, Len(rows)))

\* _normalize_ohlcv_rows: rows without a numeric close are dropped, then the
\* rows are made unique by ts and sorted
NormalizeOhlcvRows(raw_rows) ==
    SortByTs(DropDuplicates(SelectSeq(raw_rows, LAMBDA r : r.c # -1), {}))

\* the frame get_df builds from the ring
FrameOf(data) == SortByTs(DropDuplicates(data, {}))

\* get_cache_age: infinite (-1 here) for a slot never stamped
NeverStamped == -1
GetCacheAge ==
    IF lastPollMono > 0
    THEN (IF mono - lastPollMono >= 0 THEN mono - lastPollMono ELSE 0)
    ELSE NeverStamped

\* get_df(K, tf, require_fresh)
GetDfResult(require_fresh) ==
    IF require_fresh /\ (GetCacheAge = NeverStamped \/ GetCacheAge > TfStaleSec(poll.tf))
    THEN <<>>
    ELSE FrameOf(ohlcv)

\* the indices idx of the frame with ts[idx] - ts[idx-1] > 1.5 bars, as the
\* `since` of the fetch that heals each: prev_ts + one bar
GapSinces(df) ==
    IF Len(df) < 3 THEN <<>>
    ELSE LET idxs == {i \in 2..Len(df) : 2 * (df[i].ts - df[i - 1].ts) > 3}
             F[i \in 1..(Len(df) + 1)] ==
                 IF i > Len(df) THEN <<>>
                 ELSE IF i \in idxs THEN <<df[i - 1].ts + 1>> \o F[i + 1]
                      ELSE F[i + 1]
         IN  F[1]

StrictlyIncreasing(q) == \A i \in 1..(Len(q) - 1) : q[i].ts < q[i + 1].ts

\* REST responses: up to MaxFetch rows in ascending order, and some that are
\* out of order, repeat a ts, or carry a close that is not a number (-1)
Rows == [ts : 1..MaxTs, c : {1}]
AscendingFetches ==
    {q \in UNION {[1..n -> Rows] : n \in 0..MaxFetch} : StrictlyIncreasing(q)}
IrregularFetches ==
    {<<[ts |-> 2, c |-> 1], [ts |-> 1, c |-> 1]>>,
     <<[ts |-> 2, c |-> 1], [ts |-> 2, c |-> 3]>>,
     <<[ts |-> 1, c |-> -1], [ts |-> 3, c |-> 1]>>}
RawFetches == AscendingFetches \cup IrregularFetches
\* WebSocket candles: a close of 0 is rejected by the callback
WsCandles == [ts : 1..MaxTs, c : {2}] \cup {[ts |-> 1, c |-> 0]}

\* the instants at which the model looks at the monotonic clock
MonoGrid == {1, 121, 122, 601, 602, 1801, 1802}

NoCall == [op |-> "none"]

\* rings restored by load_cache (normalized, never stamped), or none
CacheInit ==
    /\ ohlcv \in {<<>>, <<[ts |-> 1, c |-> 1], [ts |-> 2, c |-> 1]>>}
    /\ lastPollMono = 0
    /\ mono = 1
    /\ poll \in {[tf |-> tf, pc |-> "sleep", gaps |-> <<>>] : tf \in Tfs}
    /\ lastCall = NoCall

\* _mark_success(key)
MarkSuccess == lastPollMono' = mono

\* poll_ohlcv, one turn of the loop from the arrival of fetch_ohlcv's answer
\* up to the next await: store, stamp, and _heal_gaps up to its first fetch
PollOhlcv(raw, ok) ==
    /\ poll.pc = "sleep"
    /\ ok \/ raw = <<>>
    /\ lastCall' = NoCall
    /\ LET rows == NormalizeOhlcvRows(raw)
       IN  IF ok /\ rows # <<>>
           THEN /\ ohlcv' = TailN(rows, MAX_CANDLES)
                /\ MarkSuccess
                /\ LET sinces == GapSinces(FrameOf(TailN(rows, MAX_CANDLES)))
                   IN  poll' = [poll EXCEPT
                                  !.pc = IF sinces = <<>> THEN "sleep" ELSE "heal",
                                  !.gaps = sinces]
           ELSE UNCHANGED <<ohlcv, lastPollMono, poll>>
    /\ UNCHANGED mono
    /\ UNCHANGED nonCache

\* _heal_gaps, from the arrival of one gap's fetch_ohlcv(since=...) answer to
\* the next await: merge into the ring as it is now
HealGaps(raw, ok) ==
    /\ poll.pc = "heal"
    /\ \A i \in 1..Len(raw) : raw[i].ts >= Head(poll.gaps)
    /\ ok \/ raw = <<>>
    /\ lastCall' = NoCall
    /\ LET rows == NormalizeOhlcvRows(raw)
       IN  IF ok /\ rows # <<>>
           THEN ohlcv' = TailN(NormalizeOhlcvRows(ohlcv \o rows), MAX_CANDLES)
           ELSE UNCHANGED ohlcv
    /\ poll' = [poll EXCEPT !.gaps = Tail(@),
                            !.pc = IF Tail(poll.gaps) = <<>> THEN "sleep" ELSE "heal"]
    /\ UNCHANGED <<lastPollMono, mono>>
    /\ UNCHANGED nonCache

\* a callback that appends whatever arrives
WsRowsAppendAlways(existing, new_row) == Append(existing, new_row)

\* update_from_ws_ohlcv: the ring after a candle with a positive close
WsRows(existing, new_row) ==
    IF existing = <<>> THEN <<new_row>>
    ELSE LET last_ts == existing[Len(existing)].ts
         IN  IF new_row.ts = last_ts
             THEN [existing EXCEPT ![Len(existing)] = new_row]
             ELSE IF new_row.ts > last_ts
                  THEN TailN(Append(existing, new_row), MAX_CANDLES)
                  ELSE existing

\* update_from_ws_ohlcv(K, tf, candle)
UpdateFromWsOhlcv(candle) ==
    /\ lastCall' = [op |-> "ws", candle |-> candle]
    /\ IF candle.c <= 0
       THEN UNCHANGED <<ohlcv, lastPollMono>>
       ELSE /\ ohlcv' = WsRows(ohlcv, candle)
            /\ MarkSuccess
    /\ UNCHANGED <<mono, poll>>
    /\ UNCHANGED nonCache

\* get_df(K, tf, require_fresh=...)
GetDf(require_fresh) ==
    /\ lastCall' = [op |-> "get_df", fresh |-> require_fresh,
                    out |-> GetDfResult(require_fresh)]
    /\ UNCHANGED <<ohlcv, lastPollMono, mono, poll>>
    /\ UNCHANGED nonCache

\* time.monotonic() moves on
CacheClock ==
    /\ \E t \in MonoGrid : t > mono /\ mono' = t
    /\ lastCall' = NoCall
    /\ UNCHANGED <<ohlcv, lastPollMono, poll>>
    /\ UNCHANGED nonCache

CacheNext ==
    \/ \E raw \in RawFetches, ok \in BOOLEAN : PollOhlcv(raw, ok)
    \/ \E raw \in RawFetches, ok \in BOOLEAN : HealGaps(raw, ok)
    \/ \E candle \in WsCandles : UpdateFromWsOhlcv(candle)
    \/ \E require_fresh \in BOOLEAN : GetDf(require_fresh)
    \/ CacheClock


(***************************************************************************)
(* execution/time_exit.py: the time-exit loop over bot.state.positions.    *)
(* The wall clock counts seconds.                                          *)
(***************************************************************************)
\* TimeExitConfig.max_holding_minutes
MAX_HOLDING_MINUTES == 240

MaxExitCalls == 2   \* invocations of check_and_execute_time_exits

ExitSyms == {"BTCUSDT", "ETHUSDT"}
\* the instants at which the model looks at the wall clock
WallGrid == {1000, 15399, 15400, 15401, 30000}

\* positions the loop may find: opened at t = 1000 s or carrying no entry
\* timestamp, with or without size
ExitPositionValues == [side : {"long", "short"}, size : {0, 1}, entry_ts : {0, 1000}]
ExitPositionMaps ==
    {<<>>} \cup
    {<<[k |-> "BTCUSDT", v |-> b]>> : b \in ExitPositionValues} \cup
    {<<[k |-> "BTCUSDT", v |-> b], [k |-> "ETHUSDT", v |-> e]>> :
        b \in ExitPositionValues, e \in {x \in ExitPositionValues : x.side = "short"}}

IdleExit == [pc |-> "idle", items |-> <<>>, exits_executed |-> 0, calls |-> 0]

ExitInit ==
    /\ positions \in ExitPositionMaps
    /\ wall = 1000
    /\ orders = <<>>
    /\ texit = IdleExit

\* should_time_exit with the default config: (now - entry_ts) / 60 >= max
ShouldTimeExit(pos) ==
    IF pos.entry_ts <= 0 THEN FALSE
    ELSE wall - pos.entry_ts >= MAX_HOLDING_MINUTES * 60

\* execution.order_router.create_order: an intent that carries an idempotency
\* key already seen is not submitted again; any other one reaches the exchange
CreateOrder(submitted, order) ==
    IF order.key # "" /\ \E i \in 1..Len(submitted) : submitted[i].key = order.key
    THEN submitted
    ELSE Append(submitted, order)

\* check_and_execute_time_exits up to the loop: list(positions.items())
CheckTimeExits ==
    /\ texit.pc = "idle"
    /\ texit.calls < MaxExitCalls
    /\ texit' = [pc |-> IF positions = <<>> THEN "idle" ELSE "loop",
                 items |-> positions, exits_executed |-> 0,
                 calls |-> texit.calls + 1]
    /\ UNCHANGED <<positions, wall, orders>>
    /\ UNCHANGED nonExit

\* one turn of the loop: the test, and for a position over time the awaited
\* create_order(..., params={}, intent_reduce_only=True), which may raise
TimeExitTurn(ok) ==
    /\ texit.pc = "loop"
    /\ LET k    == Head(texit.items).k
           pos  == Head(texit.items).v
           rest == Tail(texit.items)
           done == IF rest = <<>> THEN "idle" ELSE "loop"
       IN  IF ShouldTimeExit(pos) /\ pos.size > 0
           THEN IF ok
                THEN /\ orders' = CreateOrder(orders,
                                     [symbol |-> k, type |-> "MARKET",
                                      side |-> IF pos.side = "long" THEN "sell" ELSE "buy",
                                      amount |-> pos.size, reduce_only |-> TRUE,
                                      key |-> ""])
                     /\ texit' = [texit EXCEPT !.pc = done, !.items = rest,
                                               !.exits_executed = @ + 1]
                ELSE /\ texit' = [texit EXCEPT !.pc = done, !.items = rest]
                     /\ UNCHANGED orders
           ELSE /\ ok
                /\ texit' = [texit EXCEPT !.pc = done, !.items = rest]
                /\ UNCHANGED orders
    /\ UNCHANGED <<positions, wall>>
    /\ UNCHANGED nonExit

\* time.time() moves on
WallClock ==
    /\ \E t \in WallGrid : t > wall /\ wall' = t
    /\ UNCHANGED <<positions, orders, texit>>
    /\ UNCHANGED nonExit

ExitNext ==
    \/ CheckTimeExits
    \/ \E ok \in BOOLEAN : TimeExitTurn(ok)
    \/ WallClock

\* The other subsystems at rest
LockIdle  == LockInit
CacheIdle ==
    /\ ohlcv = <<>> /\ lastPollMono = 0 /\ mono = 1
    /\ poll = [tf |-> "1m", pc |-> "sleep", gaps |-> <<>>]
    /\ lastCall = NoCall
ExitIdle ==
    /\ positions = <<>> /\ wall = 1000 /\ orders = <<>> /\ texit = IdleExit

\* no PsycheState under study
PsycheIdle == psyche = <<>> /\ trace = <<>>

BrainIdle ==
    /\ state = FreshState
    /\ disk = [f \in Files |-> NoFile]
    /\ ioLock = "free"
    /\ diskFailed = FALSE
    /\ memFallback = NoPayload
    /\ sv = [t \in SaveIds |-> IdleFrame]
    /\ ld = IdleLoad
    /\ hist = [nSaves |-> 0, nLoads |-> 0, nMut |-> 0, nFaults |-> 0,
               nCrashes |-> 0, crash |-> NoCrash]

SpecBrainInit == BrainInit /\ LockIdle /\ CacheIdle /\ ExitIdle /\ PsycheIdle
        /\ ServicesIdle
SpecBrain == SpecBrainInit /\ [][BrainNext]_vars

(***************************************************************************)
(* load_brain on its own: one call against any disk a process may find.    *)
(***************************************************************************)
\* a state the application has been working on before it calls load_brain
WorkingState ==
    [positions    |-> <<[k |-> SYM_FUT,
                         v |-> [side |-> "long", size |-> 1, entry_ts |-> 5,
                                symbol |-> SYM_FUT]]>>,
     blacklist    |-> <<>>,
     total_trades |-> 2]

LoadInit ==
    /\ state \in {FreshState, WorkingState}
    /\ disk \in InitDisks
    /\ ioLock = "free"
    /\ diskFailed \in BOOLEAN
    /\ memFallback \in {NoPayload, StateToPayload(WorkingState)}
    /\ sv = [t \in SaveIds |-> IdleFrame]
    /\ ld = IdleLoad
    /\ hist = [nSaves |-> 0, nLoads |-> 0, nMut |-> 0, nFaults |-> 0,
               nCrashes |-> 0, crash |-> NoCrash]

LoadNext ==
    \/ LoadCall
    \/ LoadAcquire
    \/ LoadScan
    \/ LoadReturn

SpecLoadInit == LoadInit /\ LockIdle /\ CacheIdle /\ ExitIdle /\ PsycheIdle
        /\ ServicesIdle
SpecLoad == SpecLoadInit /\ [][LoadNext]_vars

(***************************************************************************)
(* save_brain on its own: the application mutating and saving, no crash.   *)
(***************************************************************************)
SaveInit ==
    /\ state \in {FreshState, WorkingState}
    /\ disk \in RunDisks
    /\ ioLock = "free"
    /\ diskFailed = FALSE
    /\ memFallback = NoPayload
    /\ sv = [t \in SaveIds |-> IdleFrame]
    /\ ld = IdleLoad
    /\ hist = [nSaves |-> 0, nLoads |-> 0, nMut |-> 0, nFaults |-> 0,
               nCrashes |-> 0, crash |-> NoCrash]

SaveNext ==
    \/ \E r \in RawSyms : OpenPosition(r)
    \/ \E r \in RawSyms : ClosePosition(r)
    \/ \E t \in Savers, force \in BOOLEAN : SaveCall(t, force)
    \/ \E t \in Savers : SaveAcquire(t)
    \/ \E t \in Savers : SaveOpenTmp(t)
    \/ \E t \in Savers : SaveWriteTmp(t)
    \/ \E t \in Savers : SaveRotUnlink(t)
    \/ \E t \in Savers : SaveRotMove(t)
    \/ \E t \in Savers : SaveMainBak(t)
    \/ \E t \in Savers : SaveTmpMain(t)
    \/ \E t \in Savers : SaveRollback(t)
    \/ \E t \in Savers : SaveUnlinkTmp(t)

SpecSaveInit == SaveInit /\ LockIdle /\ CacheIdle /\ ExitIdle /\ PsycheIdle
        /\ ServicesIdle
SpecSave == SpecSaveInit /\ [][SaveNext]_vars

\* Two tasks of the application calling save_brain while the Brain is being
\* mutated: the second call may be made at any point of the first.
OverlapNext ==
    \/ \E r \in RawSyms : OpenPosition(r)
    \/ \E r \in RawSyms : ClosePosition(r)
    \/ \E t \in Overlapping, force \in BOOLEAN : SaveCall(t, force)
    \/ \E t \in Overlapping : SaveAcquire(t)
    \/ \E t \in Overlapping : SaveOpenTmp(t)
    \/ \E t \in Overlapping : SaveWriteTmp(t)
    \/ \E t \in Overlapping : SaveRotUnlink(t)
    \/ \E t \in Overlapping : SaveRotMove(t)
    \/ \E t \in Overlapping : SaveMainBak(t)
    \/ \E t \in Overlapping : SaveTmpMain(t)
    \/ \E t \in Overlapping : SaveRollback(t)
    \/ \E t \in Overlapping : SaveUnlinkTmp(t)

\* the two tasks start on a Brain in use, with or without a main file
OverlapInit ==
    /\ SaveInit
    /\ state = WorkingState
    /\ disk[BakPath(1)] # NoFile

SpecOverlapInit ==
    OverlapInit /\ LockIdle /\ CacheIdle /\ ExitIdle /\ PsycheIdle
        /\ ServicesIdle
SpecOverlap == SpecOverlapInit /\ [][OverlapNext]_vars

(***************************************************************************)
(* Properties of the Brain persistence                                     *)
(***************************************************************************)
\* the state a snapshot file stands for
SnapshotOf(raw) == raw.blob.lz4.state
\* the restart that follows a crash inside a save that had found a valid main
RestartAfterCrashInSave ==
    ld.restart /\ hist.crash.inSave /\ Loadable(hist.crash.old)

\* C1: after a crash inside a save that started from a valid main file, the
\* restart's load_brain goes on to return success, and the state it has
\* restored is the complete pre-save snapshot or the complete new one.
C1_CrashInSaveRecovers ==
    RestartAfterCrashInSave =>
        /\ ld.pc = "await_heal" => ENABLED LoadProgress
        /\ ld.pc \in {"ret", "await_heal"} =>
              /\ ld.result
              /\ state \in {SnapshotOf(hist.crash.old), hist.crash.new}

\* the restart is stuck inside load_brain with the old snapshot restored
C1_RestartStuck ==
    /\ RestartAfterCrashInSave
    /\ ld.pc = "await_heal"
    /\ hist.crash.at = "tmp_main"
    /\ state = SnapshotOf(hist.crash.old)
    /\ ~ENABLED LoadProgress

\* C2: a load_brain that restored the state from a backup file can always go
\* on: its heal-forward save runs and the call completes.
C2_HealForwardCompletes ==
    (ld.pc = "await_heal" /\ ld.src >= 1) => ENABLED LoadProgress

\* load_brain took .bak1 because main is missing, and waits for a save that
\* waits for the lock load_brain holds
C2_HealBlocked ==
    /\ ld.pc = "await_heal" /\ ld.src = 1
    /\ ~Exists(disk, MainPath)
    /\ sv["heal"].pc = "acquire" /\ ioLock = "load"

\* the step on which save t returns to its caller
SaveReturns(t) ==
    /\ sv[t].pc \in FilePcs /\ sv'[t].pc = "idle"
    /\ hist'.nCrashes = hist.nCrashes
\* one of the steps the claim names has failed in the save that returns
NamedStepFailed(t) ==
    \/ sv[t].failed \cap {"main_bak", "tmp_main"} # {}
    \/ sv[t].pc \in {"open_tmp", "write_tmp"} /\ sv'[t].last = "failed"

\* C8: when a save returns after a failure of writing tmp, of main->.bak1 or
\* of tmp->main, main is what it was before the save, there is no tmp file,
\* the disk-failed flag is set and the fallback holds the state's payload.
C8_FailedSaveRollsBack ==
    [][\A t \in SaveIds :
         (SaveReturns(t) /\ NamedStepFailed(t)) =>
            /\ disk'[MainPath] = sv[t].pre
            /\ ~Exists(disk', TmpPath)
            /\ diskFailed'
            /\ memFallback' = StateToPayload(state)]_vars

\* the step on which save t passes the gate of save_brain
PassesGate(t) ==
    /\ sv[t].pc = "acquire" /\ sv'[t].pc # "acquire"
    /\ hist'.nCrashes = hist.nCrashes

\* C9 as stated: with the disk-failed flag set, every save_brain call, forced
\* or not, goes on to the disk write.
C9_EverySaveRetriesDisk ==
    [][\A t \in SaveIds :
         (PassesGate(t) /\ diskFailed) => sv'[t].pc = "open_tmp"]_vars

\* C9 amended: with the disk-failed flag set, a forced save goes on to the
\* disk write and a not-forced save only refreshes the memory fallback,
\* leaving the files and the flag alone; a save that commits leaves its
\* payload in main and clears the flag.
C9_OnlyForcedSavesRetryDisk ==
    [][\A t \in SaveIds :
         /\ (PassesGate(t) /\ diskFailed /\ sv[t].force) =>
                /\ sv'[t].pc = "open_tmp"
                /\ sv'[t].payload = StateToPayload(state)
         /\ (PassesGate(t) /\ diskFailed /\ ~sv[t].force) =>
                /\ sv'[t].pc = "idle" /\ sv'[t].last = "memory"
                /\ memFallback' = StateToPayload(state)
                /\ disk' = disk /\ diskFailed'
         /\ (SaveReturns(t) /\ sv'[t].last = "saved") =>
                /\ disk'[MainPath] = EnvelopeOf(sv[t].payload)
                /\ ~diskFailed' /\ memFallback' = NoPayload]_vars

\* a forced save that found the flag set has landed on disk and cleared it
C9_ForcedRetryLanded ==
    \E t \in Savers :
        /\ sv[t].pc = "idle" /\ sv[t].last = "saved"
        /\ sv[t].force /\ sv[t].flagAtGate
        /\ ~diskFailed /\ Loadable(disk[MainPath])

\* what load_brain requires of a candidate file, stated on the bytes
Qualifies(raw) ==
    /\ raw.kind = "env"
    /\ raw.checksum = Sha256Hex(raw.blob)
    /\ raw.blob.lz4.v \in ACCEPTED_VERSIONS
NoneQualifiesBefore(i) == \A j \in 0..(i - 1) : ~Qualifies(disk[LoadPath(j)])

\* C10: with no memory fallback pending, each turn of load_brain's scan
\* either skips a file that does not qualify, leaving the state alone, or
\* restores the snapshot of the first qualifying file in the order main,
\* .bak1, .bak2, .bak3; after the last file it returns False, state unchanged.
C10_LoadsFirstQualifying ==
    [][ld.pc = "scan" =>
          IF ld'.pc = "scan"
          THEN /\ ld'.i = ld.i + 1 /\ ld.i <= MAX_BACKUPS
               /\ ~Qualifies(disk[LoadPath(ld.i)])
               /\ state' = state
          ELSE IF ld'.pc = "ret" /\ ~ld'.result
          THEN /\ NoneQualifiesBefore(MAX_BACKUPS + 1)
               /\ state' = state
          ELSE /\ ld'.result /\ ld'.src = ld.i
               /\ Qualifies(disk[LoadPath(ld.i)])
               /\ NoneQualifiesBefore(ld.i)
               /\ state' = SnapshotOf(disk[LoadPath(ld.i)])]_vars

\* load_brain restored .bak2 after skipping a main and a .bak1 that exist
C10_SkippedToBak2 ==
    /\ ld.src = 2 /\ ld.result
    /\ Exists(disk, MainPath) /\ Exists(disk, BakPath(1))
    /\ state = SnapshotOf(disk[BakPath(2)])

(***************************************************************************)
(* Properties of the file instance lock                                    *)
(***************************************************************************)
SpecLockInit == LockInit /\ BrainIdle /\ CacheIdle /\ ExitIdle /\ PsycheIdle
        /\ ServicesIdle
SpecLock == SpecLockInit /\ [][LockNext]_vars

\* an instance holds the lock when its _instance_lock is set
HoldsInstanceLock(p) == mgr[p].held # 0

\* C3: at no time do two instances both hold the instance lock.
C3_OneInstanceHolds ==
    Cardinality({p \in Procs : HoldsInstanceLock(p)}) <= 1

\* both instances hold the lock, the first one never having released it:
\* its info file had aged past stale_lock_sec when the second one came
C3_BothHoldAfterStaleRemoval ==
    /\ \A p \in Procs : HoldsInstanceLock(p)
    /\ lockFs.flock["A"] # lockFs.flock["B"]
    /\ lockFs.info.id = "B" /\ lockFs.info.ts > STALE_LOCK_SEC

(***************************************************************************)
(* Properties of the OHLCV cache                                           *)
(***************************************************************************)
SpecCacheInit == CacheInit /\ BrainIdle /\ LockIdle /\ ExitIdle /\ PsycheIdle
        /\ ServicesIdle
SpecCache == SpecCacheInit /\ [][CacheNext]_vars

\* the staleness thresholds as the claim states them
ClaimedStaleSec == [t \in Tfs |-> CASE t = "1m" -> 120 [] t = "5m" -> 600 [] OTHER -> 1800]
SlotIsStale == lastPollMono = 0 \/ mono - lastPollMono > ClaimedStaleSec[poll.tf]

\* C4: get_df with require_fresh returns an empty frame when the slot was
\* never stamped or is older than its timeframe's threshold, and the stored
\* ring otherwise; without require_fresh it returns the ring at any age.
C4_GetDfTruthGuard ==
    [][lastCall'.op = "get_df" =>
          lastCall'.out = IF lastCall'.fresh /\ SlotIsStale THEN <<>> ELSE ohlcv]_vars

\* a 5m slot of age 600 s, still fresh, has answered a require_fresh call
\* with its ring
C4_FreshAtThreshold ==
    /\ lastCall.op = "get_df" /\ lastCall.fresh
    /\ poll.tf = "5m" /\ mono - lastPollMono = 600 /\ lastPollMono > 0
    /\ lastCall.out = ohlcv /\ ohlcv # <<>>

Last(q) == q[Len(q)]
AllButLast(q) == SubSeq(q, 1, Len(q) - 1)

C6_RingMonotone ==
    [][/\ StrictlyIncreasing(ohlcv')
       /\ Len(ohlcv') <= MAX_CANDLES
       /\ ohlcv # <<>> => (ohlcv' # <<>> /\ Last(ohlcv').ts >= Last(ohlcv).ts)]_vars

\* the ring's order and cap, the part of C6 the writers do keep
RingSortedAndCapped == StrictlyIncreasing(ohlcv) /\ Len(ohlcv) <= MAX_CANDLES

(***************************************************************************)
(* Properties of the time exit                                             *)
(***************************************************************************)
SpecExitInit == ExitInit /\ BrainIdle /\ LockIdle /\ CacheIdle /\ PsycheIdle
        /\ ServicesIdle
SpecExit == SpecExitInit /\ [][ExitNext]_vars

CloseOrdersFor(k) == {i \in 1..Len(orders) : orders[i].symbol = k}

\* C7: for a position that stays in state.positions, the invocations of
\* check_and_execute_time_exits submit at most one market close order.
C7_AtMostOneCloseOrder ==
    \A k \in DictKeys(positions) : Cardinality(CloseOrdersFor(k)) <= 1

\* two invocations have each submitted a close for the same open position
C7_ClosedTwice ==
    /\ texit.calls = 2
    /\ DictHas(positions, "BTCUSDT")
    /\ Cardinality(CloseOrdersFor("BTCUSDT")) = 2

(***************************************************************************)
(* brain/state.py on its own: PsycheState with every field validate()      *)
(* repairs, over raw values. A raw value is a number n/d, NaN, None or an  *)
(* unparseable string; the persistence sections above work on the          *)
(* projection of this state onto already-numeric fields.                   *)
(***************************************************************************)
Frac(n, d) == [t |-> "num", n |-> n, d |-> d]
Num(n)     == Frac(n, 1)
NaN        == [t |-> "nan",  n |-> 0, d |-> 1]
NoneV      == [t |-> "none", n |-> 0, d |-> 1]
Str(i)     == [t |-> "str",  n |-> i, d |-> 1]   \* a string float() rejects
Junk       == Str(0)
IsNum(x)   == x.t = "num"
\* comparisons of two floats; any comparison with NaN is False
Lt(a, b) == IsNum(a) /\ IsNum(b) /\ a.n * b.d < b.n * a.d
Le(a, b) == IsNum(a) /\ IsNum(b) /\ a.n * b.d <= b.n * a.d
\* max(a, b) of Python: b only when b > a
PyMax(a, b) == IF Lt(a, b) THEN b ELSE a

\* _safe_float(x, default): float(x), the default for NaN, None and strings
\* that do not parse
SafeFloat(x, default) == IF IsNum(x) THEN x ELSE default

\* _safe_int(x, default) on a raw value (the model's counters are integral,
\* so int() does not truncate): the default for a negative, NaN, None or
\* unparseable value
SafeIntRaw(x, default) == IF IsNum(x) /\ x.n >= 0 THEN x ELSE default

\* _merge_max on raw values: the operands are compared as floats, the raw
\* operand is returned
MergeMaxRaw(a, b) ==
    IF Le(SafeFloat(b, Num(0)), SafeFloat(a, Num(0))) THEN a ELSE b

\* dict.update
RECURSIVE DictUpdate(_, _)
DictUpdate(a, b) ==
    IF b = <<>> THEN a ELSE DictUpdate(DictSet(a, Head(b).k, Head(b).v), Tail(b))

\* The merge_fn of _canon_map_keys, by name. _merge_dict_shallow merges two
\* dicts (the values of symbol_performance) and otherwise prefers a b that is
\* not None (a list of entry_confidence_history, a float of
\* funding_rate_snapshot).
MergeFn(fn, a, b) ==
    CASE fn = "_merge_max"                -> MergeMaxRaw(a, b)
      [] fn = "_merge_pick_b"             -> IF b = NoneV THEN a ELSE b
      [] fn = "_merge_dict_shallow:dict"  -> DictUpdate(a, b)
      [] fn = "_merge_dict_shallow:list"  -> b
      [] fn = "_merge_dict_shallow:float" -> IF b = NoneV THEN a ELSE b

\* _canon_map_keys(m, merge_fn=fn), the body of its loop for one item with
\* canonical key ck: an empty key is dropped, a collision is merged
CanonPut(out, ck, v, fn) ==
    IF ck = <<>> THEN out
    ELSE IF DictHas(out, ck)
         THEN DictSet(out, ck, MergeFn(fn, DictGet(out, ck), v))
         ELSE DictSet(out, ck, v)

\* _canon_map_keys(m, merge_fn=fn)
RECURSIVE CanonMapKeysWith(_, _, _)
CanonMapKeysWith(rest, fn, out) ==
    IF rest = <<>> THEN out
    ELSE CanonMapKeysWith(Tail(rest), fn,
             CanonPut(out, Symkey(Head(rest).k), Head(rest).v, fn))

\* Position.validate on raw field values. atr, confidence and
\* last_breakeven_move are repaired like entry_price and are not kept.
AbsFloat(v) == Frac(Abs(v.n), v.d)
PositionValidateRaw(p, now) ==
    [side        |-> IF p.side \in {"long", "short"} THEN p.side ELSE "long",
     size        |-> AbsFloat(SafeFloat(p.size, Num(0))),
     entry_price |-> SafeFloat(p.entry_price, Num(0)),
     leverage    |-> SafeIntRaw(p.leverage, Num(0)),
     entry_ts    |-> SafeFloat(p.entry_ts, now),
     symbol      |-> Symkey(p.symbol)]

\* a collision policy that keeps the entry met first
PositionPutKeepsFirst(out, k, p) ==
    IF k = <<>> \/ DictHas(out, k) THEN out
    ELSE DictSet(out, k, [p EXCEPT !.symbol = k])

\* _merge_positions_canon, the body of its loop for one validated position
\* p with canonical key k: the newer entry_ts wins a collision
PositionPut(out, k, p) ==
    IF k = <<>> THEN out
    ELSE IF ~DictHas(out, k) \/ Le(DictGet(out, k).entry_ts, p.entry_ts)
         THEN DictSet(out, k, [p EXCEPT !.symbol = k])
         ELSE out

\* _merge_positions_canon on raw positions
RECURSIVE MergePositionsRaw(_, _, _)
MergePositionsRaw(rest, now, out) ==
    IF rest = <<>> THEN out
    ELSE MergePositionsRaw(Tail(rest), now,
             PositionPut(out, Symkey(Head(rest).k),
                         PositionValidateRaw(Head(rest).v, now)))

\* sorted(items, key=created_ts): stable insertion of one item
CreatedTs(w) == SafeFloat(w.created_ts, Num(0))
RECURSIVE InsertByCreatedTs(_, _)
InsertByCreatedTs(sorted, e) ==
    IF sorted = <<>> THEN <<e>>
    ELSE IF Lt(CreatedTs(e.v), CreatedTs(Head(sorted).v))
         THEN <<e>> \o sorted
         ELSE <<Head(sorted)>> \o InsertByCreatedTs(Tail(sorted), e)
RECURSIVE SortedByCreatedTs(_)
SortedByCreatedTs(items) ==
    IF items = <<>> THEN <<>>
    ELSE InsertByCreatedTs(SortedByCreatedTs(SubSeq(items, 1, Len(items) - 1)),
                           items[Len(items)])

\* The caps of brain/state.py, scaled down
KNOWN_EXIT_IDS_CAP     == 2
ENTRY_CONF_HISTORY_CAP == 2
TRAILING_IDS_CAP       == 2
ENTRY_WATCHES_CAP      == 2

\* xs[-n:]
LastN(xs, n) == IF Len(xs) > n THEN SubSeq(xs, Len(xs) - n + 1, Len(xs)) ELSE xs

\* _merge_entry_watches_canon: a watch is a dict with created_ts; it gets its
\* key as "k", and symbol_any defaults to the key. The newest created_ts wins
\* a collision, and the newest ENTRY_WATCHES_CAP watches are kept.
WatchPut(out, k, w) ==
    IF k = <<>> THEN out
    ELSE IF ~DictHas(out, k) \/ Le(CreatedTs(DictGet(out, k)), CreatedTs(w))
         THEN DictSet(out, k,
                  [w EXCEPT !.k = k,
                            !.symbol_any = IF w.symbol_any = <<>> THEN k
                                           ELSE w.symbol_any])
         ELSE out
RECURSIVE MergeEntryWatchesFrom(_, _)
MergeEntryWatchesFrom(rest, out) ==
    IF rest = <<>> THEN out
    ELSE MergeEntryWatchesFrom(Tail(rest),
             WatchPut(out, Symkey(Head(rest).k), Head(rest).v))
CapWatches(out) ==
    IF Len(out) > ENTRY_WATCHES_CAP
    THEN LastN(SortedByCreatedTs(out), ENTRY_WATCHES_CAP)
    ELSE out
\* a merge of the watches that forgets the cap
MergeEntryWatchesUncapped(m) == MergeEntryWatchesFrom(m, <<>>)
MergeEntryWatchesCanon(m) == CapWatches(MergeEntryWatchesFrom(m, <<>>))

\* validate(), symbol_performance hygiene of one perf dict: the defaults the
\* claims read (pnl, trailing_order_ids), and the cap of trailing_order_ids
SetDefault(d, key, val) == IF DictHas(d, key) THEN d ELSE DictSet(d, key, val)
CapTrailingIds(perf) ==
    DictSet(perf, "trailing_order_ids",
            LastN(DictGet(perf, "trailing_order_ids"), TRAILING_IDS_CAP))
PerfDefaults(perf) ==
    CapTrailingIds(SetDefault(SetDefault(perf, "pnl", Num(0)),
                              "trailing_order_ids", <<>>))

\* validate(), lines 450-484: the loop over a snapshot of symbol_performance
PerfStep(sp, sym, k, perf) ==
    IF k = <<>> THEN DictDel(sp, sym)
    ELSE IF k # sym THEN DictDel(DictSet(sp, k, PerfDefaults(perf)), sym)
    \* perf is repaired in place: the dict shows it when it still holds this
    \* perf under k
    ELSE IF DictHas(sp, k) /\ DictGet(sp, k) = perf
         THEN DictSet(sp, k, PerfDefaults(perf))
         ELSE sp
RECURSIVE PerfHygiene(_, _)
PerfHygiene(snapshot, sp) ==
    IF snapshot = <<>> THEN sp
    ELSE PerfHygiene(Tail(snapshot),
             PerfStep(sp, Head(snapshot).k, Symkey(Head(snapshot).k),
                      Head(snapshot).v))

\* validate(), lines 487-506: confidence histories are cut to the newest
\* ENTRY_CONF_HISTORY_CAP values, each value through _safe_float
Cleaned(hist2) == [i \in 1..Len(hist2) |-> SafeFloat(hist2[i], Num(0))]
\* the end of both loops: the entry moves from sym to k with its new value
Rekey(m, sym, k, val) ==
    IF k = <<>> THEN DictDel(m, sym)
    ELSE DictSet(IF k # sym THEN DictDel(m, sym) ELSE m, k, val)
RECURSIVE ConfHygiene(_, _)
ConfHygiene(snapshot, ech) ==
    IF snapshot = <<>> THEN ech
    ELSE ConfHygiene(Tail(snapshot),
             Rekey(ech, Head(snapshot).k, Symkey(Head(snapshot).k),
                   Cleaned(LastN(Head(snapshot).v, ENTRY_CONF_HISTORY_CAP))))

\* validate(), lines 509-523: funding snapshot values through _safe_float
RECURSIVE FundingHygiene(_, _)
FundingHygiene(snapshot, frs) ==
    IF snapshot = <<>> THEN frs
    ELSE FundingHygiene(Tail(snapshot),
             Rekey(frs, Head(snapshot).k, Symkey(Head(snapshot).k),
                   SafeFloat(Head(snapshot).v, Num(0))))

\* validate(), lines 439-447: every position validated again under its key
RevalidatePositions(pos, now) ==
    [i \in 1..Len(pos) |->
        [k |-> pos[i].k,
         v |-> [PositionValidateRaw(pos[i].v, now) EXCEPT !.symbol = pos[i].k]]]

\* validate(), lines 386-398: known_exit_order_ids becomes a set; above the
\* cap, list(set)[-CAP:] keeps the CAP ids that come last in the set's
\* iteration order, which is the hash order of the strings and not the order
\* in which they were added. keep is the subset that iteration order leaves.
IdsOf(kei) ==
    IF kei.kind = "set" THEN kei.ids
    ELSE IF kei.kind = "list" THEN {kei.ids[i] : i \in 1..Len(kei.ids)}
    ELSE {}
TrimmedSets(ids) ==
    IF Cardinality(ids) > KNOWN_EXIT_IDS_CAP
    THEN {keep \in SUBSET ids : Cardinality(keep) = KNOWN_EXIT_IDS_CAP}
    ELSE {ids}
ExitIdsKept(kei) == TrimmedSets(IdsOf(kei))

\* max(0.0, _safe_float(x, default)) and max(0, _safe_int(x, 0))
NonNegFloat(x, default) == PyMax(Num(0), SafeFloat(x, default))
NonNegInt(x) == PyMax(Num(0), SafeIntRaw(x, Num(0)))

\* validate(), lines 431-436, on the repaired values: the peak follows a
\* greater positive equity (and is stamped), the wins follow fewer trades
PeakRaised(cur, peak) == Lt(Num(0), cur) /\ Lt(peak, cur)
PeakRepaired(cur, peak) == IF PeakRaised(cur, peak) THEN cur ELSE peak
PeakTsRepaired(cur, peak, ts, now) == IF PeakRaised(cur, peak) THEN now ELSE ts
WinsRepaired(trades, wins) == IF Lt(trades, wins) THEN trades ELSE wins

\* validate(), lines 380-382 and 450-523: canonical keys, then the hygiene
\* loop over a snapshot of the canonical map
PerfRepaired(m) == PerfHygiene(m, m)
ConfRepaired(m) == ConfHygiene(m, m)
FundingRepaired(m) == FundingHygiene(m, m)

\* PsycheState.validate on raw field values. now is time.time(); keep is the
\* set of known_exit_order_ids the trim leaves (see ExitIdsKept). run_context,
\* current_day and streak_history are not kept.
ValidateRaw(st, now, keep) ==
    [positions   |-> RevalidatePositions(
                         MergePositionsRaw(st.positions, now, <<>>), now),
     blacklist          |-> CanonMapKeysWith(st.blacklist, "_merge_max", <<>>),
     last_exit_time     |-> CanonMapKeysWith(st.last_exit_time, "_merge_max", <<>>),
     consecutive_losses |-> CanonMapKeysWith(st.consecutive_losses, "_merge_max", <<>>),
     blacklist_reason   |-> CanonMapKeysWith(st.blacklist_reason, "_merge_pick_b", <<>>),
     symbol_performance |->
         PerfRepaired(CanonMapKeysWith(st.symbol_performance,
                                       "_merge_dict_shallow:dict", <<>>)),
     entry_confidence_history |->
         ConfRepaired(CanonMapKeysWith(st.entry_confidence_history,
                                       "_merge_dict_shallow:list", <<>>)),
     funding_rate_snapshot |->
         FundingRepaired(CanonMapKeysWith(st.funding_rate_snapshot,
                                          "_merge_dict_shallow:float", <<>>)),
     entry_watches        |-> MergeEntryWatchesCanon(st.entry_watches),
     known_exit_order_ids |-> [kind |-> "set", ids |-> keep],
     current_equity       |-> NonNegFloat(st.current_equity, Num(0)),
     peak_equity          |-> PeakRepaired(NonNegFloat(st.current_equity, Num(0)),
                                           NonNegFloat(st.peak_equity, Num(0))),
     start_of_day_equity  |-> NonNegFloat(st.start_of_day_equity, Num(0)),
     daily_pnl            |-> SafeFloat(st.daily_pnl, Num(0)),
     total_trades         |-> NonNegInt(st.total_trades),
     total_wins           |-> WinsRepaired(NonNegInt(st.total_trades),
                                           NonNegInt(st.total_wins)),
     win_streak           |-> NonNegInt(st.win_streak),
     peak_equity_timestamp |->
         PeakTsRepaired(NonNegFloat(st.current_equity, Num(0)),
                        NonNegFloat(st.peak_equity, Num(0)),
                        SafeFloat(st.peak_equity_timestamp, now), now),
     current_drawdown_pct |-> NonNegFloat(st.current_drawdown_pct, Num(0)),
     max_drawdown         |-> NonNegFloat(st.max_drawdown, Num(0)),
     win_rate             |-> NonNegFloat(st.win_rate, Num(0)),
     funding_paid         |-> SafeFloat(st.funding_paid, Num(0)),
     session_start_timestamp |-> SafeFloat(st.session_start_timestamp, now),
     uptime_seconds       |-> NonNegFloat(st.uptime_seconds, Num(0)),
     adaptive_risk_multiplier |-> NonNegFloat(st.adaptive_risk_multiplier, Num(1))]

\* An ordering comparison (<, >=, ...) raises TypeError on None or a string;
\* a division raises on them too
Orders(x) == x.t \in {"num", "nan"}

\* a / b and (peak - cur) / peak on floats (NaN when an operand is NaN)
Div(a, b) == IF IsNum(a) /\ IsNum(b) THEN Frac(a.n * b.d, a.d * b.n) ELSE NaN
DrawdownOf(peak, cur) == Frac(peak.n * cur.d - cur.n * peak.d, cur.d * peak.n)

\* recompute_derived, line 534 (an exception leaves the assignments made
\* before it)
MaxDrawdownStep(s2) ==
    IF ~Orders(s2.max_drawdown) THEN s2
    ELSE [s2 EXCEPT !.max_drawdown = PyMax(@, s2.current_drawdown_pct)]

\* recompute_derived, lines 531-536
DrawdownStep(s1) ==
    IF ~Orders(s1.peak_equity)
          \/ (Lt(Num(0), s1.peak_equity) /\ ~Orders(s1.current_equity))
    THEN s1
    ELSE IF Lt(Num(0), s1.peak_equity) /\ Le(Num(0), s1.current_equity)
         THEN MaxDrawdownStep(
                  [s1 EXCEPT !.current_drawdown_pct =
                       PyMax(Num(0), DrawdownOf(s1.peak_equity, s1.current_equity))])
         ELSE [s1 EXCEPT !.current_drawdown_pct = Num(0)]

\* a recompute_derived that refreshes the win rate and leaves the drawdown
RecomputeWinRateOnly(st) ==
    IF ~Orders(st.total_trades)
          \/ (Lt(Num(0), st.total_trades) /\ ~Orders(st.total_wins))
    THEN st
    ELSE [st EXCEPT !.win_rate = IF Lt(Num(0), st.total_trades)
                                 THEN Div(st.total_wins, st.total_trades)
                                 ELSE Num(0)]

\* PsycheState.recompute_derived
RecomputeDerived(st) ==
    IF ~Orders(st.total_trades)
          \/ (Lt(Num(0), st.total_trades) /\ ~Orders(st.total_wins))
    THEN st
    ELSE DrawdownStep(
             [st EXCEPT !.win_rate = IF Lt(Num(0), st.total_trades)
                                     THEN Div(st.total_wins, st.total_trades)
                                     ELSE Num(0)])

\* update_equity, lines 541-547, for the repaired amount eq
SetEquity(st, eq, ts) ==
    IF ~Orders(st.peak_equity) THEN [st EXCEPT !.current_equity = eq]
    ELSE RecomputeDerived(
             IF Le(st.peak_equity, Num(0)) \/ Lt(st.peak_equity, eq)
             THEN [st EXCEPT !.current_equity = eq, !.peak_equity = eq,
                             !.peak_equity_timestamp = ts]
             ELSE [st EXCEPT !.current_equity = eq])

\* PsycheState.update_equity(equity, ts=ts)
UpdateEquity(st, equity, ts) == SetEquity(st, NonNegFloat(equity, Num(0)), ts)

\* sorted(str(x) for x in kei): the model's ids are single digits, whose
\* string order is their numeric order
RECURSIVE SortedIds(_)
SortedIds(ids) ==
    IF ids = {} THEN <<>>
    ELSE SortedIds(ids \ {CHOOSE x \in ids : \A y \in ids : y <= x})
             \o <<CHOOSE x \in ids : \A y \in ids : y <= x>>

\* to_dict, lines 576-621, on the state validate() and recompute_derived()
\* left: asdict() with known_exit_order_ids as a sorted, capped list
AsDict(st2) ==
    [st2 EXCEPT !.known_exit_order_ids =
        [kind |-> "list",
         ids  |-> LastN(SortedIds(st2.known_exit_order_ids.ids),
                        KNOWN_EXIT_IDS_CAP)]]

\* PsycheState.to_dict: what the call returns. (The call also leaves the
\* state itself validated and recomputed.)
ToDictRaw(st, now, keep) == AsDict(RecomputeDerived(ValidateRaw(st, now, keep)))

\* persistence.py, _canon_positions_map: the body of its loop for a position
\* dict pv with canonical key ck
PositionDictPut(out, ck, pv) ==
    IF ck = <<>> THEN out
    ELSE IF ~DictHas(out, ck)
            \/ Le(SafeFloat(DictGet(out, ck).entry_ts, Num(0)),
                  SafeFloat(pv.entry_ts, Num(0)))
         THEN DictSet(out, ck,
                  [pv EXCEPT !.symbol = ck,
                             !.size = AbsFloat(SafeFloat(pv.size, Num(0)))])
         ELSE out

\* persistence.py, _canon_positions_map on position dicts
RECURSIVE CanonPositionsRaw(_, _)
CanonPositionsRaw(rest, out) ==
    IF rest = <<>> THEN out
    ELSE CanonPositionsRaw(Tail(rest),
             PositionDictPut(out, Symkey(Head(rest).k), Head(rest).v))

\* persistence.py, _canonicalize_payload_state on a payload dict
CanonicalizePayloadRaw(s) ==
    [s EXCEPT
       !.positions          = CanonPositionsRaw(s.positions, <<>>),
       !.blacklist          = CanonMapKeysWith(s.blacklist, "_merge_max", <<>>),
       !.last_exit_time     = CanonMapKeysWith(s.last_exit_time, "_merge_max", <<>>),
       !.consecutive_losses = CanonMapKeysWith(s.consecutive_losses, "_merge_max", <<>>),
       !.blacklist_reason   = CanonMapKeysWith(s.blacklist_reason, "_merge_pick_b", <<>>),
       !.symbol_performance =
           CanonMapKeysWith(s.symbol_performance, "_merge_dict_shallow:dict", <<>>),
       !.entry_confidence_history =
           CanonMapKeysWith(s.entry_confidence_history, "_merge_dict_shallow:list", <<>>),
       !.funding_rate_snapshot =
           CanonMapKeysWith(s.funding_rate_snapshot, "_merge_dict_shallow:float", <<>>),
       !.entry_watches      = MergeEntryWatchesCanon(s.entry_watches),
       !.known_exit_order_ids =
           [kind |-> "list",
            ids  |-> LastN(s.known_exit_order_ids.ids, KNOWN_EXIT_IDS_CAP)]]

\* save_brain, lines 698-700: the payload state a save writes from the dict
\* to_dict() returned (_state_to_payload canonicalizes it, save_brain once
\* more)
SavedPayloadRaw(raw) == CanonicalizePayloadRaw(CanonicalizePayloadRaw(raw))

\* PsycheState.from_loaded on a payload dict, then _apply_state_in_place:
\* validate() and recompute_derived(), twice. The list of ids of a payload is
\* within the cap, so the trim of validate() keeps all of them.
Repaired(s, now) ==
    RecomputeDerived(ValidateRaw(s, now, IdsOf(s.known_exit_order_ids)))

\* load_brain, lines 793-796: _migrate_payload_state (which canonicalizes),
\* from_loaded and _apply_state_in_place on the payload state of a snapshot
LoadedStateRaw(payload, now) ==
    Repaired(Repaired(CanonicalizePayloadRaw(payload), now), now)

\* the payload state in the file an envelope was written to
PayloadIn(raw) == Lz4Decompress(UnpackEnvelope(raw).blob).state

(***************************************************************************)
(* The PsycheState specification: a state with raw field values, and the   *)
(* calls made on it.                                                       *)
(***************************************************************************)
MaxCalls     == 3   \* calls made on the state in one behaviour
MaxEntries   == 2   \* entries of a raw positions map or symbol-keyed map
MaxEquity    == 2   \* greatest equity reported to update_equity
MaxRawTs     == 2   \* greatest timestamp in a raw state

\* time.time() during the calls: later than every timestamp of the raw state
NowTs == Num(MaxRawTs + 1)

\* Raw symbol keys: the futures, canonical and spot lower-case spellings of
\* one market, a key with a repeated quote suffix, a key that canonicalizes
\* to the empty string, and two other markets.
SYM_LOWER  == <<" ","b","t","c","/","u","s","d","t">>
SYM_REPEAT == SYM_CANON \o USDT \o USDT
SYM_SLASH  == <<"/">>
SYM_ETH    == <<"E","T","H","U","S","D","T">>
SYM_SOL    == <<"S","O","L","/","U","S","D","T">>
RawKeys    == {SYM_FUT, SYM_CANON, SYM_LOWER, SYM_REPEAT, SYM_SLASH}
WatchKeys  == {SYM_FUT, SYM_CANON, SYM_ETH, SYM_SOL}

\* dicts of 1..n entries with distinct keys from ks and values from vs
DictsOver(ks, vs, n) ==
    {d \in UNION {[1..m -> [k : ks, v : vs]] : m \in 1..n} :
        \A i, j \in 1..Len(d) : i # j => d[i].k # d[j].k}

\* PsycheState(): the defaults of the dataclass
DefaultState ==
    [positions |-> <<>>, blacklist |-> <<>>, last_exit_time |-> <<>>,
     consecutive_losses |-> <<>>, blacklist_reason |-> <<>>,
     symbol_performance |-> <<>>, entry_confidence_history |-> <<>>,
     funding_rate_snapshot |-> <<>>, entry_watches |-> <<>>,
     known_exit_order_ids |-> [kind |-> "set", ids |-> {}],
     current_equity |-> Num(0), peak_equity |-> Num(0),
     start_of_day_equity |-> Num(0), daily_pnl |-> Num(0),
     total_trades |-> Num(0), total_wins |-> Num(0), win_streak |-> Num(0),
     peak_equity_timestamp |-> NowTs, current_drawdown_pct |-> Num(0),
     max_drawdown |-> Num(0), win_rate |-> Num(0), funding_paid |-> Num(0),
     session_start_timestamp |-> NowTs, uptime_seconds |-> Num(0),
     adaptive_risk_multiplier |-> Num(1)]

\* Raw positions: sizes that are negative, zero, NaN; entry_ts that is NaN
RawPositions ==
    {[side |-> "long", size |-> sz_ts[1], entry_price |-> Num(1),
      leverage |-> Num(1), entry_ts |-> sz_ts[2], symbol |-> <<>>] :
        sz_ts \in {<<Num(2), Num(1)>>, <<Num(-1), Num(MaxRawTs)>>,
                   <<Num(0), Num(MaxRawTs)>>, <<NaN, Num(1)>>, <<Num(2), NaN>>}}
StatesWithPositions ==
    {[DefaultState EXCEPT !.positions = m] :
        m \in DictsOver(RawKeys, RawPositions, MaxEntries)}

\* Raw symbol-keyed maps of numbers (and, for blacklist_reason, of strings)
RawNumbers == {Num(1), Num(MaxRawTs), NaN}
ReasonOf(m) == [i \in 1..Len(m) |-> [k |-> m[i].k, v |-> Str(m[i].v.n)]]
StatesWithMaps ==
    {[DefaultState EXCEPT !.blacklist = m, !.last_exit_time = m,
                          !.consecutive_losses = m, !.funding_rate_snapshot = m,
                          !.blacklist_reason = ReasonOf(m)] :
        m \in DictsOver(RawKeys, RawNumbers, MaxEntries)}

\* Raw collections around their caps. Exit order ids are numbered in the
\* order in which they were recorded.
RawIdSets == SUBSET (1..(KNOWN_EXIT_IDS_CAP + 1))
RawLists  == UNION {[1..n -> {Num(1), Num(2), NaN}] : n \in 0..(ENTRY_CONF_HISTORY_CAP + 1)}
RawTrailingIds == {[i \in 1..n |-> i] : n \in 0..(TRAILING_IDS_CAP + 1)}
RawPerfs ==
    {<<[k |-> "trailing_order_ids", v |-> t]>> : t \in RawTrailingIds}
        \cup {<<[k |-> "pnl", v |-> Num(1)]>>}
RawWatches ==
    {[created_ts |-> Num(ts), k |-> <<>>, symbol_any |-> <<>>] : ts \in 1..MaxRawTs}
StatesWithCollections ==
    {[DefaultState EXCEPT !.known_exit_order_ids = [kind |-> "set", ids |-> ids]] :
        ids \in RawIdSets}
    \cup {[DefaultState EXCEPT
              !.entry_confidence_history = <<[k |-> key, v |-> h]>>,
              !.symbol_performance = <<[k |-> key, v |-> perf]>>] :
            key \in {SYM_FUT, SYM_REPEAT}, h \in RawLists, perf \in RawPerfs}
    \cup {[DefaultState EXCEPT !.entry_watches = m] :
            m \in DictsOver(WatchKeys, RawWatches, ENTRY_WATCHES_CAP + 1)}

\* Raw counters and equity fields; x stands for every other numeric field
StatesWithNumbers ==
    {[DefaultState EXCEPT
         !.current_equity = cur, !.peak_equity = peak,
         !.total_trades = trades, !.total_wins = wins,
         !.current_drawdown_pct = dd, !.max_drawdown = dd,
         !.start_of_day_equity = x, !.daily_pnl = x, !.win_streak = x,
         !.peak_equity_timestamp = x, !.win_rate = x, !.funding_paid = x,
         !.session_start_timestamp = x, !.uptime_seconds = x,
         !.adaptive_risk_multiplier = x] :
       cur \in {Num(0), Num(MaxEquity), NaN},
       peak \in {Num(0), Num(1), NaN, NoneV},
       trades \in {Num(1), Num(-1), NaN},
       wins \in {Num(0), Num(2)},
       dd \in {Num(0), Num(5), NaN},
       x \in {Num(1), NaN}}

RawStates ==
    StatesWithPositions \cup StatesWithMaps \cup StatesWithCollections
        \cup StatesWithNumbers

NoTrace ==
    [op |-> "none", calls |-> 0, session |-> FALSE, pre |-> <<>>,
     file |-> NoFile, saved |-> <<>>]

\* A PsycheState as a process may hold it: PsycheState() at the start of a
\* session, or an object built with any field values
PsycheInit ==
    /\ psyche \in RawStates \cup {DefaultState}
    /\ trace = [NoTrace EXCEPT !.session = (psyche = DefaultState)]

\* What the exchange reports as equity: amounts, NaN, None
EquityInputs == {Num(e) : e \in 0..MaxEquity} \cup {NaN, NoneV}

\* psyche.validate()
ValidateCall ==
    /\ trace.calls < MaxCalls
    /\ \E keep \in ExitIdsKept(psyche.known_exit_order_ids) :
           psyche' = ValidateRaw(psyche, NowTs, keep)
    /\ trace' = [trace EXCEPT !.op = "validate", !.calls = @ + 1, !.pre = psyche]
    /\ UNCHANGED nonPsyche

\* psyche.update_equity(eq)
UpdateEquityCall ==
    /\ trace.calls < MaxCalls
    /\ \E eq \in EquityInputs : psyche' = UpdateEquity(psyche, eq, NowTs)
    /\ trace' = [trace EXCEPT !.op = "update_equity", !.calls = @ + 1,
                              !.pre = psyche]
    /\ UNCHANGED nonPsyche

\* psyche.recompute_derived()
RecomputeDerivedCall ==
    /\ trace.calls < MaxCalls
    /\ psyche' = RecomputeDerived(psyche)
    /\ trace' = [trace EXCEPT !.op = "recompute_derived", !.calls = @ + 1,
                              !.pre = psyche]
    /\ UNCHANGED nonPsyche

\* PsycheState.from_loaded(psyche): a session starts on the repaired object
\* (schema_version is current, so _migrate_in_place does nothing)
FromLoadedCall ==
    /\ trace.calls < MaxCalls
    /\ ~trace.session
    /\ \E keep \in ExitIdsKept(psyche.known_exit_order_ids) :
           psyche' = RecomputeDerived(ValidateRaw(psyche, NowTs, keep))
    /\ trace' = [trace EXCEPT !.op = "from_loaded", !.calls = @ + 1,
                              !.pre = psyche, !.session = TRUE]
    /\ UNCHANGED nonPsyche

\* save_brain(psyche) on a healthy disk, given what validate() makes of the
\* state: to_dict() leaves the state validated and recomputed, the dict it
\* returns is canonicalized and written. trace.saved records validate(s) for
\* the state s the save was given.
SaveEffects(validated) ==
    /\ psyche' = RecomputeDerived(validated)
    /\ trace' = [trace EXCEPT
                    !.op = "save_brain", !.calls = @ + 1, !.pre = psyche,
                    !.file = EnvelopeOf(SavedPayloadRaw(AsDict(psyche'))),
                    !.saved = validated]
SavePsyche ==
    /\ trace.calls < MaxCalls
    /\ trace.file = NoFile
    /\ \E keep \in ExitIdsKept(psyche.known_exit_order_ids) :
           SaveEffects(ValidateRaw(psyche, NowTs, keep))
    /\ UNCHANGED nonPsyche

\* load_brain(psyche) from the file the save wrote
LoadPsyche ==
    /\ trace.calls < MaxCalls
    /\ Loadable(trace.file)
    /\ psyche' = LoadedStateRaw(PayloadIn(trace.file), NowTs)
    /\ trace' = [trace EXCEPT !.op = "load_brain", !.calls = @ + 1,
                              !.pre = psyche, !.session = TRUE]
    /\ UNCHANGED nonPsyche

\* validate() and the save/load round trip, from every raw state
PsycheNext ==
    \/ ValidateCall
    \/ FromLoadedCall
    \/ SavePsyche
    \/ LoadPsyche

SpecPsycheInit == PsycheInit /\ BrainIdle /\ LockIdle /\ CacheIdle /\ ExitIdle
        /\ ServicesIdle
SpecPsyche == SpecPsycheInit /\ [][PsycheNext]_vars

\* Sequences of update_equity, validate and recompute_derived calls, from
\* raw counters and equity fields and from raw one-entry maps
EquityInit ==
    /\ psyche \in StatesWithNumbers \cup {DefaultState}
                     \cup {s \in StatesWithMaps : Len(s.blacklist) = 1}
    /\ trace = [NoTrace EXCEPT !.session = (psyche = DefaultState)]

EquityNext ==
    \/ UpdateEquityCall
    \/ ValidateCall
    \/ RecomputeDerivedCall
    \/ FromLoadedCall

SpecEquityInit == EquityInit /\ BrainIdle /\ LockIdle /\ CacheIdle /\ ExitIdle
        /\ ServicesIdle
SpecEquity == SpecEquityInit /\ [][EquityNext]_vars

(***************************************************************************)
(* Properties of PsycheState and of its round trip through a snapshot      *)
(***************************************************************************)
\* the fields the round trip is stated on
RoundTripFields(st) ==
    [positions |-> st.positions, blacklist |-> st.blacklist,
     blacklist_reason |-> st.blacklist_reason,
     consecutive_losses |-> st.consecutive_losses,
     last_exit_time |-> st.last_exit_time,
     known_exit_order_ids |-> IdsOf(st.known_exit_order_ids),
     total_trades |-> st.total_trades, total_wins |-> st.total_wins,
     win_streak |-> st.win_streak,
     current_equity |-> st.current_equity, peak_equity |-> st.peak_equity,
     peak_equity_timestamp |-> st.peak_equity_timestamp,
     daily_pnl |-> st.daily_pnl, start_of_day_equity |-> st.start_of_day_equity]

\* the payload state a save of st writes (st being a loaded state, the trim
\* of validate() keeps all its ids)
PayloadOf(st) ==
    SavedPayloadRaw(ToDictRaw(st, NowTs, IdsOf(st.known_exit_order_ids)))

\* C11: when a state s was saved and the snapshot is loaded back, the loaded
\* state equals validate(s) on positions, blacklist, blacklist_reason,
\* consecutive_losses, last_exit_time, known_exit_order_ids, the counters and
\* the equity fields, and saving the loaded state writes the payload state
\* that is already in the file.
C11_RoundTripIsValidate ==
    trace.op = "load_brain" =>
        /\ RoundTripFields(psyche) = RoundTripFields(trace.saved)
        /\ PayloadOf(psyche) = PayloadIn(trace.file)

\* a state whose blacklist key repeats the quote suffix went through a save
\* and a load, and came back under a key validate() does not give it
C11_LoadedUnderOtherKey ==
    /\ trace.op = "load_brain"
    /\ DictHas(trace.saved.blacklist, SYM_CANON \o USDT)
    /\ ~DictHas(psyche.blacklist, SYM_CANON \o USDT)
    /\ DictHas(psyche.blacklist, SYM_CANON)

(***************************************************************************)
(* Overlapping saves                                                       *)
(***************************************************************************)
InFileSteps(t) == sv[t].pc \in FilePcs

\* C12: of two overlapping save_brain calls the file steps never interleave:
\* at most one save is inside its file steps (tmp write, rotation,
\* main->.bak1, tmp->main) and it holds _IO_LOCK; a save enters its first
\* file step only when no other save is inside its own; the disk is changed
\* only by the save holding the lock; and the payload a save writes is the
\* serialization of the state as it was when that save took the lock.
C12_SavesDoNotInterleave ==
    [][/\ \A t \in Overlapping : sv'[t].pc \in FilePcs => ioLock' = t
       /\ \A t \in Overlapping : \A u \in Overlapping \ {t} :
             ~(sv'[t].pc \in FilePcs /\ sv'[u].pc \in FilePcs)
       /\ \A t \in Overlapping :
             (~InFileSteps(t) /\ sv'[t].pc \in FilePcs) =>
                 /\ \A u \in Overlapping \ {t} : ~InFileSteps(u)
                 /\ ioLock = "free"
                 /\ sv'[t].payload = StateToPayload(state)
       /\ disk' # disk => \E t \in Overlapping : InFileSteps(t) /\ ioLock = t
      ]_vars

\* the second call is made while the first is replacing main, and waits
C12_SecondSaveWaits ==
    \E t \in Overlapping : \E u \in Overlapping \ {t} :
        /\ sv[t].pc = "tmp_main"
        /\ ioLock = t
        /\ sv[u].pc = "acquire"

(***************************************************************************)
(* validate(): positions                                                   *)
(***************************************************************************)
\* the entries of a raw positions map whose key has the canonical form k
Colliding(pos, k) == {i \in 1..Len(pos) : Symkey(pos[i].k) = k}
EntriesUnder(pos, k) == {i \in 1..Len(pos) : pos[i].k = k}
ValidatedEntry(pos, i, k) ==
    [PositionValidateRaw(pos[i].v, NowTs) EXCEPT !.symbol = k]

\* C13: when several raw keys of the positions map share one canonical form
\* k, after validate() exactly one entry remains under k (and none under the
\* raw keys), it is one of the colliding entries, no colliding entry has a
\* greater entry_ts, and its symbol field is k.
C13_CollisionKeepsNewest ==
    trace.op = "validate" =>
        \A k \in {Symkey(key) : key \in DictKeys(trace.pre.positions)} \ {<<>>} :
            Cardinality(Colliding(trace.pre.positions, k)) >= 2 =>
                /\ Cardinality(EntriesUnder(psyche.positions, k)) = 1
                /\ \A i \in Colliding(trace.pre.positions, k) :
                      \/ trace.pre.positions[i].k = k
                      \/ ~DictHas(psyche.positions, trace.pre.positions[i].k)
                /\ DictGet(psyche.positions, k).symbol = k
                /\ \E i \in Colliding(trace.pre.positions, k) :
                      DictGet(psyche.positions, k) =
                          ValidatedEntry(trace.pre.positions, i, k)
                /\ \A i \in Colliding(trace.pre.positions, k) :
                      Le(ValidatedEntry(trace.pre.positions, i, k).entry_ts,
                         DictGet(psyche.positions, k).entry_ts)

\* two raw keys collide and the entry met first, being the newer, is kept
C13_FirstEntryIsNewest ==
    /\ trace.op = "validate"
    /\ Len(trace.pre.positions) = 2
    /\ Colliding(trace.pre.positions, SYM_CANON) = {1, 2}
    /\ trace.pre.positions[1].k # SYM_CANON
    /\ Lt(ValidatedEntry(trace.pre.positions, 2, SYM_CANON).entry_ts,
          ValidatedEntry(trace.pre.positions, 1, SYM_CANON).entry_ts)
    /\ Len(psyche.positions) = 1
    /\ psyche.positions[1].k = SYM_CANON
    /\ psyche.positions[1].v = ValidatedEntry(trace.pre.positions, 1, SYM_CANON)

(***************************************************************************)
(* validate(): the keys of the symbol-keyed maps                           *)
(***************************************************************************)
SymbolKeyedMaps(st) ==
    {st.positions, st.blacklist, st.blacklist_reason, st.consecutive_losses,
     st.last_exit_time, st.symbol_performance, st.entry_confidence_history,
     st.funding_rate_snapshot, st.entry_watches}

\* C14: after validate() every key of every symbol-keyed map (positions,
\* blacklist, blacklist_reason, consecutive_losses, last_exit_time,
\* symbol_performance, entry_confidence_history, funding_rate_snapshot,
\* entry_watches) is non-empty and is a fixed point of the canonicalizer.
C14_KeysAreFixedPoints ==
    trace.op = "validate" =>
        \A m \in SymbolKeyedMaps(psyche) : \A k \in DictKeys(m) :
            k # <<>> /\ Symkey(k) = k

\* validate() left a position under a key the canonicalizer would change
C14_KeyStillReducible ==
    /\ trace.op = "validate"
    /\ DictHas(trace.pre.positions, SYM_REPEAT)
    /\ DictHas(psyche.positions, SYM_CANON \o USDT)
    /\ DictGet(psyche.positions, SYM_CANON \o USDT).symbol = SYM_CANON \o USDT
    /\ Symkey(SYM_CANON \o USDT) = SYM_CANON

\* C15: after validate() the positions map has no entry of size 0 (sizes
\* coerced to 0 from NaN or unparseable input included): every entry has a
\* size > 0, stored as an absolute value, and a symbol field equal to its key.
C15_NoZeroSizePosition ==
    trace.op = "validate" =>
        \A i \in 1..Len(psyche.positions) :
            /\ Lt(Num(0), psyche.positions[i].v.size)
            /\ psyche.positions[i].v.symbol = psyche.positions[i].k

\* validate() coerced a NaN size to 0 and kept the entry
C15_ZeroSizeKept ==
    /\ trace.op = "validate"
    /\ \E i \in 1..Len(trace.pre.positions) :
          /\ trace.pre.positions[i].k = SYM_CANON
          /\ trace.pre.positions[i].v.size = NaN
    /\ Len(trace.pre.positions) = 1
    /\ DictHas(psyche.positions, SYM_CANON)
    /\ DictGet(psyche.positions, SYM_CANON).size = Num(0)

(***************************************************************************)
(* Counters, equity and the derived metrics                                *)
(***************************************************************************)
CountersOrdered(st) ==
    Le(Num(0), st.total_wins) /\ Le(st.total_wins, st.total_trades)
PeakCoversEquity(st) ==
    Lt(Num(0), st.current_equity) => Le(st.current_equity, st.peak_equity)

\* C16: after every validate() and after every update_equity(), from any
\* starting field values, 0 <= total_wins <= total_trades, and
\* current_equity > 0 implies peak_equity >= current_equity.
C16_CountersAndPeakHold ==
    trace.op \in {"validate", "update_equity"} =>
        CountersOrdered(psyche) /\ PeakCoversEquity(psyche)

\* update_equity() returned with more wins than trades
C16_WinsAboveTradesAfterUpdate ==
    /\ trace.op = "update_equity"
    /\ trace.calls = 1
    /\ psyche.current_equity = Num(MaxEquity)
    /\ Lt(psyche.total_trades, psyche.total_wins)

NumEq(a, b) == Le(a, b) /\ Le(b, a)

\* current_drawdown_pct is in [0, 1] and, when peak_equity > 0, is
\* max(0, (peak_equity - current_equity) / peak_equity)
DrawdownConsistent(st) ==
    /\ Le(Num(0), st.current_drawdown_pct)
    /\ Le(st.current_drawdown_pct, Num(1))
    /\ Lt(Num(0), st.peak_equity) =>
           NumEq(st.current_drawdown_pct,
                 PyMax(Num(0), DrawdownOf(st.peak_equity, st.current_equity)))

\* C17: over any sequence of update_equity, validate and recompute_derived
\* calls within one session (a state built by PsycheState() or from_loaded),
\* current_drawdown_pct stays within [0, 1] and equals
\* max(0, (peak_equity - current_equity) / peak_equity) when peak_equity > 0,
\* and max_drawdown never decreases.
C17_DrawdownTracksEquity ==
    [][trace'.session =>
          /\ DrawdownConsistent(psyche')
          /\ trace.session => Le(psyche.max_drawdown, psyche'.max_drawdown)
      ]_vars

\* equity fell below the peak: the drawdown is strictly inside (0, 1) and
\* raised max_drawdown
C17_DrawdownRaisedMax ==
    /\ trace.session
    /\ trace.op = "update_equity"
    /\ Lt(Num(0), psyche.current_equity)
    /\ Lt(psyche.current_equity, psyche.peak_equity)
    /\ Lt(Num(0), psyche.current_drawdown_pct)
    /\ Lt(psyche.current_drawdown_pct, Num(1))
    /\ Lt(trace.pre.max_drawdown, psyche.max_drawdown)

(***************************************************************************)
(* validate(): the caps of the collections                                 *)
(***************************************************************************)
\* a raw watch whose canonical key validate() did not keep
DroppedWatches(pre, post) ==
    {i \in 1..Len(pre) : /\ Symkey(pre[i].k) # <<>>
                         /\ ~DictHas(post, Symkey(pre[i].k))}

\* C18: after validate(), whatever the sizes before the call,
\* known_exit_order_ids has at most KNOWN_EXIT_IDS_CAP elements,
\* entry_watches at most ENTRY_WATCHES_CAP entries and no dropped watch is
\* newer than a kept one, each entry_confidence_history list has at most
\* ENTRY_CONF_HISTORY_CAP values and they are the last values of the list it
\* was built from, and each trailing_order_ids list has at most
\* TRAILING_IDS_CAP ids.
C18_CollectionsCapped ==
    trace.op = "validate" =>
        /\ Cardinality(psyche.known_exit_order_ids.ids) <= KNOWN_EXIT_IDS_CAP
        /\ Len(psyche.entry_watches) <= ENTRY_WATCHES_CAP
        /\ \A i \in DroppedWatches(trace.pre.entry_watches, psyche.entry_watches) :
              \A j \in 1..Len(psyche.entry_watches) :
                  Le(CreatedTs(trace.pre.entry_watches[i].v),
                     CreatedTs(psyche.entry_watches[j].v))
        /\ \A i \in 1..Len(psyche.entry_confidence_history) :
              /\ Len(psyche.entry_confidence_history[i].v) <= ENTRY_CONF_HISTORY_CAP
              /\ \E j \in 1..Len(trace.pre.entry_confidence_history) :
                    psyche.entry_confidence_history[i].v =
                        Cleaned(LastN(trace.pre.entry_confidence_history[j].v,
                                      ENTRY_CONF_HISTORY_CAP))
        /\ \A i \in 1..Len(psyche.symbol_performance) :
              /\ DictHas(psyche.symbol_performance[i].v, "trailing_order_ids")
              /\ Len(DictGet(psyche.symbol_performance[i].v, "trailing_order_ids"))
                     <= TRAILING_IDS_CAP

\* one watch more than the cap: the oldest one was dropped
C18_OldestWatchDropped ==
    /\ trace.op = "validate"
    /\ Len(trace.pre.entry_watches) = ENTRY_WATCHES_CAP + 1
    /\ Len(psyche.entry_watches) = ENTRY_WATCHES_CAP
    /\ \E i \in DroppedWatches(trace.pre.entry_watches, psyche.entry_watches) :
          \E j \in 1..Len(psyche.entry_watches) :
              Lt(CreatedTs(trace.pre.entry_watches[i].v),
                 CreatedTs(psyche.entry_watches[j].v))

\* Exit order ids are numbered in the order in which they were recorded: of
\* a set of ids, the most recently recorded ones up to the cap
MostRecentIds(ids) ==
    {x \in ids : Cardinality({y \in ids : y > x}) < KNOWN_EXIT_IDS_CAP}

\* C19: when known_exit_order_ids exceeds its cap and is trimmed, by
\* validate() or by the serialization of a save, the ids dropped are the
\* oldest-recorded ones: the most recently recorded ids up to the cap are the
\* ones retained.
C19_TrimDropsOldestIds ==
    (/\ trace.op \in {"validate", "save_brain"}
     /\ Cardinality(IdsOf(trace.pre.known_exit_order_ids)) > KNOWN_EXIT_IDS_CAP)
        => psyche.known_exit_order_ids.ids =
               MostRecentIds(IdsOf(trace.pre.known_exit_order_ids))

\* validate() forgot the id recorded last and kept older ones
C19_NewestIdForgotten ==
    /\ trace.op = "validate"
    /\ (KNOWN_EXIT_IDS_CAP + 1) \in IdsOf(trace.pre.known_exit_order_ids)
    /\ (KNOWN_EXIT_IDS_CAP + 1) \notin psyche.known_exit_order_ids.ids
    /\ 1 \in psyche.known_exit_order_ids.ids
    /\ Cardinality(psyche.known_exit_order_ids.ids) = KNOWN_EXIT_IDS_CAP

(***************************************************************************)
(* NaN hygiene                                                             *)
(***************************************************************************)
NumericFields(st) ==
    {st.current_equity, st.peak_equity, st.start_of_day_equity, st.daily_pnl,
     st.total_trades, st.total_wins, st.win_streak, st.peak_equity_timestamp,
     st.current_drawdown_pct, st.max_drawdown, st.win_rate, st.funding_paid,
     st.session_start_timestamp, st.uptime_seconds,
     st.adaptive_risk_multiplier}
PositionNumbers(st) ==
    UNION {{st.positions[i].v.size, st.positions[i].v.entry_price,
            st.positions[i].v.leverage, st.positions[i].v.entry_ts} :
              i \in 1..Len(st.positions)}
ValuesOf(m) == {m[i].v : i \in 1..Len(m)}
NumericMapValues(st) ==
    ValuesOf(st.blacklist) \cup ValuesOf(st.last_exit_time)
        \cup ValuesOf(st.consecutive_losses)
        \cup ValuesOf(st.funding_rate_snapshot)
        \cup UNION {{h[i] : i \in 1..Len(h)} :
                      h \in ValuesOf(st.entry_confidence_history)}

\* C20: in every sequence of update_equity and validate calls on inputs and
\* stored values that may be NaN, None or unparseable, once validate() has
\* run no numeric field of PsycheState, no numeric field of a Position and no
\* value of the numeric symbol-keyed maps (blacklist, last_exit_time,
\* consecutive_losses, funding_rate_snapshot, entry_confidence_history) is
\* NaN.
C20_NoNaNAfterValidate ==
    trace.op = "validate" =>
        NaN \notin (NumericFields(psyche) \cup PositionNumbers(psyche)
                        \cup NumericMapValues(psyche))

\* validate() replaced the NaN funding rate and left the NaN blacklist expiry
C20_NaNExpiryKept ==
    /\ trace.op = "validate"
    /\ DictHas(trace.pre.funding_rate_snapshot, SYM_CANON)
    /\ DictGet(trace.pre.funding_rate_snapshot, SYM_CANON) = NaN
    /\ DictGet(psyche.funding_rate_snapshot, SYM_CANON) = Num(0)
    /\ DictHas(psyche.blacklist, SYM_CANON)
    /\ DictGet(psyche.blacklist, SYM_CANON) = NaN

(***************************************************************************)
(* data/cache.py: the ticker slot of one symbol K and get_price            *)
(***************************************************************************)
CoreIdle == BrainIdle /\ LockIdle /\ CacheIdle /\ ExitIdle /\ PsycheIdle

PRICE_STALE_SEC_IN_POS == 15
PRICE_STALE_SEC_IDLE   == 60

\* self.bidask.get(k) when K has no pair
NoBidAsk == <<>>

\* the monotonic instants at which something happens
TickGrid == {1, 16, 17, 61, 62}
\* what a ticker, order book or trade message carries in a numeric field
Lasts  == {Num(0), Num(3), NaN}
Closes == {Num(0), Num(1)}
Quotes == {Num(0), Num(1), NoneV}

\* GodEmperorDataOracle(): nothing stored, nothing stamped.  price_at is
\* not a field of the code: it keeps the instant of the last assignment to
\* self.price[k] (0 before the first).
TickInit ==
    tick = [price |-> Num(0), price_at |-> 0, bidask |-> NoBidAsk,
            stamp |-> 0, now |-> 1,
            op |-> "none", in_position |-> FALSE, result |-> Num(0)]

\* _mark_success(k) on the slot
TickStamped(t) == [t EXCEPT !.stamp = t.now]

\* get_cache_age(k, tf=""), with -1 for float("inf")
TickerAge(t) ==
    IF t.stamp > 0
    THEN (IF t.now - t.stamp >= 0 THEN t.now - t.stamp ELSE 0)
    ELSE NeverStamped

\* a staleness limit that is the same in and out of a position
StaleLimitFlat(in_position) == PRICE_STALE_SEC_IDLE

\* get_price, line 323
StaleLimit(in_position) ==
    IF in_position THEN PRICE_STALE_SEC_IN_POS ELSE PRICE_STALE_SEC_IDLE

Mid(ba) == Frac(ba[1].n * ba[2].d + ba[2].n * ba[1].d, 2 * ba[1].d * ba[2].d)

\* get_price(K, in_position) on the slot t
GetPrice(t, in_position) ==
    IF TickerAge(t) = NeverStamped \/ TickerAge(t) > StaleLimit(in_position)
    THEN Num(0)
    ELSE IF Lt(Num(0), SafeFloat(t.price, Num(0))) THEN SafeFloat(t.price, Num(0))
    ELSE IF t.bidask # NoBidAsk /\ Lt(Num(0), t.bidask[1]) /\ Lt(Num(0), t.bidask[2])
         THEN Mid(t.bidask)
         ELSE Num(0)

\* last = ticker["last"], or ticker["close"] when last is not positive
LastOf(last, close) ==
    IF Lt(Num(0), SafeFloat(last, Num(0))) THEN SafeFloat(last, Num(0))
    ELSE SafeFloat(close, Num(0))

\* update_from_ws_ticker, lines 528-540, for the price last
WsTickerStored(t, last, bid, ask) ==
    [t EXCEPT
        !.price  = IF Lt(Num(0), last) THEN last ELSE @,
        !.price_at = IF Lt(Num(0), last) THEN t.now ELSE @,
        !.bidask = IF Lt(Num(0), SafeFloat(bid, last)) /\ Lt(Num(0), SafeFloat(ask, last))
                   THEN <<SafeFloat(bid, last), SafeFloat(ask, last)>>
                   ELSE IF Lt(Num(0), last) THEN <<last, last>> ELSE @]

\* poll_ticker, lines 841-848, for the price last
PolledTickerStored(t, last, bid, ask) ==
    IF Lt(Num(0), last)
    THEN [t EXCEPT !.price = last,
                   !.price_at = t.now,
                   !.bidask = <<SafeFloat(bid, last), SafeFloat(ask, last)>>]
    ELSE t

Ran(t, op) == [t EXCEPT !.op = op]

\* update_from_ws_ticker(K, ticker)
UpdateFromWsTicker ==
    /\ \E last \in Lasts, close \in Closes, bid \in Quotes,
          ask \in {Num(0), Num(3), NoneV} :
          tick' = Ran(TickStamped(WsTickerStored(tick, LastOf(last, close), bid, ask)),
                      "ws_ticker")
    /\ UNCHANGED nonTick

\* poll_ticker, one turn of its loop from the answer of fetch_ticker: the
\* call failed (_mark_fail), or the ticker is stored and the slot stamped
PollTicker ==
    /\ \E ok \in BOOLEAN, last \in Lasts, close \in Closes,
          bid \in {Num(-1), Num(1), NoneV}, ask \in {Num(0), Num(1)} :
          tick' = IF ok
                  THEN Ran(TickStamped(PolledTickerStored(tick, LastOf(last, close),
                                                          bid, ask)), "poll_ticker")
                  ELSE Ran(tick, "poll_ticker")
    /\ UNCHANGED nonTick

\* update_from_ws_orderbook(K, book) with best bid and best ask
UpdateFromWsOrderbook ==
    /\ \E bid \in Quotes, ask \in Quotes \cup {Num(3)} :
          tick' = IF Lt(Num(0), SafeFloat(bid, Num(0))) /\ Lt(Num(0), SafeFloat(ask, Num(0)))
                  THEN Ran(TickStamped(
                           [tick EXCEPT
                               !.bidask = <<bid, ask>>,
                               !.price = IF Lt(Num(0), @) THEN @
                                         ELSE Mid(<<bid, ask>>),
                               !.price_at = IF Lt(Num(0), tick.price) THEN @
                                            ELSE tick.now]), "ws_orderbook")
                  ELSE Ran(tick, "ws_orderbook")
    /\ UNCHANGED nonTick

\* update_from_ws_trades(K, trades) with the price of the latest trade
UpdateFromWsTrades ==
    /\ \E price \in Lasts :
          tick' = IF Lt(Num(0), SafeFloat(price, Num(0)))
                  THEN Ran(TickStamped([tick EXCEPT !.price = price,
                                                    !.price_at = tick.now]),
                           "ws_trades")
                  ELSE Ran(tick, "ws_trades")
    /\ UNCHANGED nonTick

\* time passes
TickClock ==
    /\ \E n \in TickGrid : n > tick.now /\ tick' = Ran([tick EXCEPT !.now = n], "clock")
    /\ UNCHANGED nonTick

\* get_price(K, in_position=...)
GetPriceCall ==
    /\ \E in_position \in BOOLEAN :
          tick' = [tick EXCEPT !.op = "get_price", !.in_position = in_position,
                               !.result = GetPrice(tick, in_position)]
    /\ UNCHANGED nonTick

TickNext ==
    \/ UpdateFromWsTicker
    \/ PollTicker
    \/ UpdateFromWsOrderbook
    \/ UpdateFromWsTrades
    \/ TickClock
    \/ GetPriceCall

SpecTickerInit ==
    TickInit /\ CoreIdle /\ RedisIdle /\ HbIdle /\ SlipIdle /\ MlIdle /\ LoopsIdle /\ LateIdle
SpecTicker == SpecTickerInit /\ [][TickNext]_vars

\* C21: get_price(K, in_position) returns 0.0 whenever K was never stamped
\* or the age of its ticker stamp exceeds the limit (15 s in a position, 60 s
\* idle); otherwise the stored last price if positive, else the mid of a
\* positive bid/ask pair, else 0.0.
C21_GetPriceStaleGuard ==
    tick.op = "get_price" =>
        IF tick.stamp = 0
              \/ tick.now - tick.stamp > (IF tick.in_position THEN 15 ELSE 60)
        THEN tick.result = Num(0)
        ELSE IF Lt(Num(0), tick.price) THEN tick.result = tick.price
        ELSE IF /\ tick.bidask # NoBidAsk
                /\ Lt(Num(0), tick.bidask[1]) /\ Lt(Num(0), tick.bidask[2])
             THEN NumEq(tick.result, Mid(tick.bidask))
                      /\ Le(tick.bidask[1], tick.result) = Le(tick.bidask[1], tick.bidask[2])
             ELSE tick.result = Num(0)

\* no last price is stored and the mid of the pair is returned
C21_MidReturned ==
    /\ tick.op = "get_price"
    /\ tick.price = Num(0)
    /\ tick.bidask = <<Num(1), Num(3)>>
    /\ NumEq(tick.result, Num(2))

\* a price stamped 16 s ago is refused to a caller in a position
C21_StaleInPosition ==
    /\ tick.op = "get_price"
    /\ tick.in_position
    /\ Lt(Num(0), tick.price)
    /\ tick.now - tick.stamp = PRICE_STALE_SEC_IN_POS + 1
    /\ tick.result = Num(0)

\* ---------------------------------------------------------------------
\* execution/distributed_lock.py, RedisLockManager: one lock key on a
\* Redis server and two bot instances.  Every awaited Redis command is
\* one step, so that the commands of two instances and the expiry of the
\* key interleave as they do on the server; each command may raise.
\* ---------------------------------------------------------------------

Insts == {"A", "B"}

LOCK_TIMEOUT_SEC     == 60   \* DistributedLockConfig.lock_timeout_sec
REFRESH_INTERVAL_SEC == 15   \* DistributedLockConfig.refresh_interval_sec

RedisTick    == 15   \* seconds the server clock advances in one step
MaxRedisTime == 75   \* last instant of the server clock

NoOwner == "none"

NoKey == [owner |-> NoOwner, exp |-> 0]

NoDel == [by |-> NoOwner, owner |-> NoOwner]

IdleInst == [pc |-> "idle", held |-> FALSE, result |-> "none",
             erred |-> FALSE]

RedisInit ==
    redis = [key     |-> NoKey,
             now     |-> 0,
             inst    |-> [i \in Insts |-> IdleInst],
             lastDel |-> NoDel]

\* GET key: the owner stored under the key, None once the key is gone.
KeyOwner(r) == r.key.owner

\* `except Exception: return True  # Fail open` of _acquire_lock.
AcquireFailedOpen(r, i) ==
    [r EXCEPT !.inst[i].pc = "idle", !.inst[i].result = "true",
              !.inst[i].erred = TRUE]

\* _acquire_lock is entered: the next command is SET key id NX EX ttl.
RedisAcquireCall(i) ==
    /\ redis # <<>>
    /\ redis.inst[i].pc = "idle"
    /\ redis' = [redis EXCEPT !.inst[i].pc = "set",
                              !.inst[i].result = "none",
                              !.inst[i].erred = FALSE]
    /\ UNCHANGED nonRedis

\* SET NX EX: stores the caller as the owner when no key exists.
RedisSetNx(i) ==
    /\ redis # <<>>
    /\ redis.inst[i].pc = "set"
    /\ \E ok \in BOOLEAN :
         redis' =
           IF ~ok THEN AcquireFailedOpen(redis, i)
           ELSE IF KeyOwner(redis) = NoOwner
           THEN [redis EXCEPT
                   !.key = [owner |-> i,
                            exp |-> redis.now + LOCK_TIMEOUT_SEC],
                   !.inst[i].pc = "idle", !.inst[i].held = TRUE,
                   !.inst[i].result = "true"]
           ELSE [redis EXCEPT !.inst[i].pc = "get"]
    /\ UNCHANGED nonRedis

\* GET after a refused SET: the caller goes on only if it owns the key.
RedisGetOwner(i) ==
    /\ redis # <<>>
    /\ redis.inst[i].pc = "get"
    /\ \E ok \in BOOLEAN :
         redis' =
           IF ~ok THEN AcquireFailedOpen(redis, i)
           ELSE IF KeyOwner(redis) = i
           THEN [redis EXCEPT !.inst[i].pc = "expire"]
           ELSE [redis EXCEPT !.inst[i].pc = "idle",
                              !.inst[i].result = "false"]
    /\ UNCHANGED nonRedis

\* EXPIRE key ttl: resets the TTL of whatever key exists at that moment,
\* then the caller lists the key as held.
RedisExpire(i) ==
    /\ redis # <<>>
    /\ redis.inst[i].pc = "expire"
    /\ \E ok \in BOOLEAN :
         redis' =
           IF ~ok THEN AcquireFailedOpen(redis, i)
           ELSE [redis EXCEPT
                   !.key = IF KeyOwner(redis) = NoOwner THEN NoKey
                           ELSE [owner |-> KeyOwner(redis),
                                 exp |-> redis.now + LOCK_TIMEOUT_SEC],
                   !.inst[i].pc = "idle", !.inst[i].held = TRUE,
                   !.inst[i].result = "true"]
    /\ UNCHANGED nonRedis

\* _release_lock is entered: the next command is GET key.
RedisReleaseCall(i) ==
    /\ redis # <<>>
    /\ redis.inst[i].pc = "idle"
    /\ redis' = [redis EXCEPT !.inst[i].pc = "rget",
                              !.inst[i].result = "none",
                              !.inst[i].erred = FALSE]
    /\ UNCHANGED nonRedis

\* GET of the release: an owner other than the caller skips the DEL and
\* the key leaves the held set; an error leaves the held set alone.
RedisReleaseGet(i) ==
    /\ redis # <<>>
    /\ redis.inst[i].pc = "rget"
    /\ \E ok \in BOOLEAN :
         redis' =
           IF ~ok
           THEN [redis EXCEPT !.inst[i].pc = "idle",
                              !.inst[i].erred = TRUE]
           ELSE IF KeyOwner(redis) = i
           THEN [redis EXCEPT !.inst[i].pc = "rdel"]
           ELSE [redis EXCEPT !.inst[i].pc = "idle",
                              !.inst[i].held = FALSE]
    /\ UNCHANGED nonRedis

\* DEL key: deletes whatever key exists at that moment; lastDel keeps
\* who deleted and whose key it was.
RedisReleaseDel(i) ==
    /\ redis # <<>>
    /\ redis.inst[i].pc = "rdel"
    /\ \E ok \in BOOLEAN :
         redis' =
           IF ~ok
           THEN [redis EXCEPT !.inst[i].pc = "idle",
                              !.inst[i].erred = TRUE]
           ELSE [redis EXCEPT
                   !.key = NoKey,
                   !.lastDel = [by |-> i, owner |-> KeyOwner(redis)],
                   !.inst[i].pc = "idle", !.inst[i].held = FALSE]
    /\ UNCHANGED nonRedis

\* The server clock advances; a key whose TTL has run out is removed.
RedisClock ==
    /\ redis # <<>>
    /\ redis.now + RedisTick <= MaxRedisTime
    /\ redis' = [redis EXCEPT
                   !.now = redis.now + RedisTick,
                   !.key = IF /\ redis.key.owner # NoOwner
                              /\ redis.key.exp <= redis.now + RedisTick
                           THEN NoKey ELSE redis.key]
    /\ UNCHANGED nonRedis

RedisNext ==
    \/ \E i \in Insts : RedisAcquireCall(i)
    \/ \E i \in Insts : RedisSetNx(i)
    \/ \E i \in Insts : RedisGetOwner(i)
    \/ \E i \in Insts : RedisExpire(i)
    \/ \E i \in Insts : RedisReleaseCall(i)
    \/ \E i \in Insts : RedisReleaseGet(i)
    \/ \E i \in Insts : RedisReleaseDel(i)
    \/ RedisClock

SpecRedisInit ==
    RedisInit /\ CoreIdle /\ TickIdle /\ HbIdle /\ SlipIdle /\ MlIdle
        /\ LoopsIdle /\ LateIdle

SpecRedis == SpecRedisInit /\ [][RedisNext]_vars

\* C22: with the Redis backend a release never deletes a key that another
\* instance owns: whenever a DEL of a release has removed a key, the key
\* was the deleting instance's own, under every interleaving of the
\* release (GET, then DEL), the expiry of the key and the other
\* instance's acquire.
C22_ReleaseDeletesOwnKeyOnly ==
    redis.lastDel.owner \in {NoOwner, redis.lastDel.by}

\* A release of A has deleted the key that B had acquired.
C22_ForeignKeyDeleted ==
    /\ redis.lastDel = [by |-> "A", owner |-> "B"]
    /\ redis.inst["B"].held

\* C23: with the Redis backend a key listed in an instance's held set is
\* owned by that instance on the server for as long as the instance has
\* not released it: the key does not expire under a live holder and no
\* other instance becomes its owner.
C23_HeldKeyOwnedByHolder ==
    \A i \in Insts :
        (redis.inst[i].held /\ redis.inst[i].pc = "idle")
            => KeyOwner(redis) = i

\* A holds the key in its held set, has deleted nothing, and the server
\* has given the key to B after its TTL ran out.
C23_KeyLostUnderHolder ==
    /\ redis.inst["A"].held
    /\ redis.inst["A"].pc = "idle"
    /\ redis.lastDel = NoDel
    /\ KeyOwner(redis) = "B"
    /\ redis.inst["B"].held

\* ---------------------------------------------------------------------
\* execution/distributed_lock.py: acquisition while the backend fails.
\* The file backend gets the two places of acquire_instance_lock where an
\* error other than Timeout can be raised; the Redis backend has its
\* errors in the commands above.  get_lock_manager configures one of the
\* two backends: the file backend is the one in use while no Redis
\* manager exists.
\* ---------------------------------------------------------------------

FileBackend == redis = <<>>

\* FileLock(...).acquire raises an OSError (lock directory unwritable):
\* `except Exception: return False`.
FlockError(p) ==
    /\ FileBackend
    /\ mgr[p].pc = "flock"
    /\ mgr' = [mgr EXCEPT ![p] = [pc |-> "idle", held |-> 0,
                                  result |-> FALSE]]
    /\ UNCHANGED <<lockFs, lockNow>>
    /\ UNCHANGED nonLock

\* open(lock_path + ".info", "w") raises after the flock was taken: the
\* FileLock object is dropped with the frame, which releases its flock,
\* and the call returns False.
WriteInfoError(p) ==
    /\ FileBackend
    /\ mgr[p].pc = "write_info"
    /\ lockFs' = [lockFs EXCEPT !.flock[p] = 0]
    /\ mgr' = [mgr EXCEPT ![p] = [pc |-> "idle", held |-> 0,
                                  result |-> FALSE]]
    /\ UNCHANGED lockNow
    /\ UNCHANGED nonLock

FileIoError(p) == FlockError(p) \/ WriteInfoError(p)

FailOpenNext ==
    \/ FileBackend /\ LockNext
    \/ \E p \in Procs : FlockError(p)
    \/ \E p \in Procs : WriteInfoError(p)
    \/ RedisNext

SpecFailOpenInit ==
    /\ BrainIdle /\ LockInit /\ CacheIdle /\ ExitIdle /\ PsycheIdle
    /\ RedisIdle \/ RedisInit
    /\ TickIdle /\ HbIdle /\ SlipIdle /\ MlIdle /\ LoopsIdle /\ LateIdle

SpecFailOpen == SpecFailOpenInit /\ [][FailOpenNext]_vars

\* An acquire of the Redis backend has just returned from its exception
\* handler.
RedisErrorReturn(i) ==
    /\ redis # <<>>
    /\ redis.inst[i].pc \in {"set", "get", "expire"}
    /\ redis'.inst[i].erred

\* C24: when the lock backend itself fails during an acquisition (an I/O
\* error of the file backend other than the lock being held, or a Redis
\* error), the acquire call returns True, with the file backend as with
\* the Redis backend.
C24_BackendErrorFailsOpen ==
    [][/\ \A p \in Procs : FileIoError(p) => mgr'[p].result = TRUE
       /\ \A i \in Insts :
              RedisErrorReturn(i) => redis'.inst[i].result = "true"]_vars

\* The Redis half of the statement, which the code satisfies.
C24_RedisErrorFailsOpen ==
    [][\A i \in Insts :
           RedisErrorReturn(i) => redis'.inst[i].result = "true"]_vars

\* An acquire of the file backend has returned False although no other
\* process holds or ever held the lock.
C24_FileErrorRefused ==
    /\ FileBackend
    /\ mgr["A"].pc = "idle" /\ mgr["A"].result = FALSE
    /\ mgr["A"].held = 0
    /\ lockFs.file # 0
    /\ \A q \in Procs : lockFs.flock[q] = 0
    /\ mgr["B"] = IdleMgr
    /\ lockFs.info = NoInfo
    /\ lockNow = 0

\* ---------------------------------------------------------------------
\* execution/heartbeat.py, HeartbeatMonitor: two of the components that
\* initialize_heartbeat registers, in registration order, two alert
\* callbacks, and the wall clock.  A component that has not beaten since
\* its registration or reset has last_beat_ts = 0.
\* ---------------------------------------------------------------------

GUARDIAN_INTERVAL_SEC  == 15   \* HeartbeatConfig.guardian_interval_sec
DATA_LOOP_INTERVAL_SEC == 30   \* HeartbeatConfig.data_loop_interval_sec
ALERT_AFTER_MISS       == 3    \* HeartbeatConfig.alert_after_miss

HbTick    == 15    \* seconds the wall clock advances in one step
MaxHbTime == 120   \* last instant of the wall clock

Components == <<"guardian", "data_loop">>

ComponentNames == {Components[k] : k \in DOMAIN Components}

AlertCallbacks == {"notify", "log"}

Inf == -1   \* float("inf"), the age of a component that never beat

ExpectedInterval(c) ==
    IF c = "guardian" THEN GUARDIAN_INTERVAL_SEC ELSE DATA_LOOP_INTERVAL_SEC

\* ComponentHealth as register_component creates it.
NewHealth == [last_beat_ts |-> 0, is_stale |-> FALSE, miss_count |-> 0]

HbInit ==
    hb = [comp   |-> [c \in ComponentNames |-> NewHealth],
          now    |-> HbTick,
          op     |-> "none",
          raised |-> FALSE,
          calls  |-> {}]

\* age = now - last_beat_ts if last_beat_ts > 0 else float("inf")
BeatAge(h, c) ==
    IF h.comp[c].last_beat_ts > 0 THEN h.now - h.comp[c].last_beat_ts
    ELSE Inf

\* age <= expected_interval_sec * 1.5
WithinGrace(h, c) ==
    BeatAge(h, c) # Inf /\ 2 * BeatAge(h, c) <= 3 * ExpectedInterval(c)

\* int(age / expected_interval_sec) raises OverflowError on an infinite
\* age.
MissPeriodsRaises(h, c) == BeatAge(h, c) = Inf

MissPeriods(h, c) == BeatAge(h, c) \div ExpectedInterval(c)

\* check_health from the k-th component on: the health records as the
\* loop leaves them, the names reported critical, and whether the loop
\* has raised.
RECURSIVE CheckHealthFrom(_, _, _)
CheckHealthFrom(h, k, critical) ==
    IF k > Len(Components)
    THEN [comp |-> h.comp, critical |-> critical, raised |-> FALSE]
    ELSE LET c == Components[k]
         IN  IF WithinGrace(h, c)
             THEN CheckHealthFrom(h, k + 1, critical)
             ELSE IF MissPeriodsRaises(h, c)
             THEN [comp |-> h.comp, critical |-> critical, raised |-> TRUE]
             ELSE CheckHealthFrom(
                      [h EXCEPT !.comp[c].is_stale = TRUE,
                                !.comp[c].miss_count = MissPeriods(h, c)],
                      k + 1,
                      IF MissPeriods(h, c) >= ALERT_AFTER_MISS
                      THEN critical \cup {c} ELSE critical)

CheckHealth(h) == CheckHealthFrom(h, 1, {})

\* beat(component_name)
HbBeat(c) ==
    /\ hb # <<>>
    /\ hb' = [hb EXCEPT
                !.comp[c] = [last_beat_ts |-> hb.now,
                             is_stale |-> FALSE,
                             miss_count |-> IF hb.comp[c].is_stale THEN 0
                                            ELSE hb.comp[c].miss_count],
                !.op = "beat", !.raised = FALSE, !.calls = {}]
    /\ UNCHANGED nonHb

\* reset_component(name)
HbReset(c) ==
    /\ hb # <<>>
    /\ hb.comp[c] # NewHealth
    /\ hb' = [hb EXCEPT !.comp[c] = NewHealth,
                        !.op = "reset", !.raised = FALSE, !.calls = {}]
    /\ UNCHANGED nonHb

\* trigger_alerts(): check_health, then every alert callback for every
\* critical component; a callback that raises is logged and the loop goes
\* on.  An exception of check_health leaves trigger_alerts before any
\* callback.
TriggerAlerts ==
    /\ hb # <<>>
    /\ LET r == CheckHealth(hb)
       IN  hb' = [hb EXCEPT
                    !.comp = r.comp,
                    !.op = "trigger_alerts",
                    !.raised = r.raised,
                    !.calls = IF r.raised THEN {}
                              ELSE AlertCallbacks \X r.critical]
    /\ UNCHANGED nonHb

HbClock ==
    /\ hb # <<>>
    /\ hb.now + HbTick <= MaxHbTime
    /\ hb' = [hb EXCEPT !.now = hb.now + HbTick, !.op = "clock",
                        !.raised = FALSE, !.calls = {}]
    /\ UNCHANGED nonHb

HbNext ==
    \/ \E c \in ComponentNames : HbBeat(c)
    \/ \E c \in ComponentNames : HbReset(c)
    \/ TriggerAlerts
    \/ HbClock

SpecHeartbeatInit ==
    HbInit /\ CoreIdle /\ TickIdle /\ RedisIdle /\ SlipIdle /\ MlIdle
        /\ LoopsIdle /\ LateIdle

SpecHeartbeat == SpecHeartbeatInit /\ [][HbNext]_vars

\* The time since the last beat of c has reached ALERT_AFTER_MISS expected
\* intervals.
ReachedAlertAge(h, c) ==
    \/ BeatAge(h, c) = Inf
    \/ BeatAge(h, c) >= ALERT_AFTER_MISS * ExpectedInterval(c)

AlertedBy(h, c) == {cb \in AlertCallbacks : <<cb, c>> \in h.calls}

\* C25: trigger_alerts invokes every registered alert callback for a
\* component exactly when the time since its last beat has reached
\* ALERT_AFTER_MISS expected intervals, and none for a component whose
\* last beat is at most 1.5 expected intervals old; a beat leaves the
\* component with its stale flag and its miss count cleared.
C25_AlertsExactlyWhenCritical ==
    /\ hb.op = "trigger_alerts" =>
         \A c \in ComponentNames :
            /\ AlertedBy(hb, c) =
                  (IF ReachedAlertAge(hb, c) THEN AlertCallbacks ELSE {})
            /\ WithinGrace(hb, c) => AlertedBy(hb, c) = {}
    /\ hb.op = "beat" =>
         \A c \in ComponentNames :
            hb.comp[c].last_beat_ts = hb.now =>
               ~hb.comp[c].is_stale /\ hb.comp[c].miss_count = 0

\* The guardian last beat three expected intervals ago, the data loop has
\* not beaten yet, and trigger_alerts has invoked no callback.
C25_CriticalNotAlerted ==
    /\ hb.op = "trigger_alerts"
    /\ hb.raised
    /\ BeatAge(hb, "guardian") = ALERT_AFTER_MISS * GUARDIAN_INTERVAL_SEC
    /\ BeatAge(hb, "data_loop") = Inf
    /\ hb.calls = {}

\* ---------------------------------------------------------------------
\* execution/slippage_estimator.py, SlippageEstimator.estimate_slippage:
\* a pure function of the order book, the side and the notional.  A level
\* is <<price, amount>>; prices, amounts and notionals are integers, the
\* quotients the code forms are kept exact as Frac(n, d) with d > 0.
\* ---------------------------------------------------------------------

SLIPPAGE_ORDERBOOK_DEPTH == 2   \* levels walked (20 in settings.py)

MaxBookLevels == 3              \* longest side of a book

MAX_ACCEPTABLE_SLIPPAGE_PCT == Frac(6, 1000)

DEFAULT_SLIPPAGE_PCT == Frac(1, 1000)

BookLevels ==
    {<<0, 1>>, <<100, 0>>, <<90, 1>>, <<100, 1>>, <<101, 1>>, <<110, 9>>}

RECURSIVE BookSides(_)
BookSides(n) ==
    IF n = 0 THEN {<<>>}
    ELSE BookSides(n - 1) \cup
         {Append(s, l) : s \in {x \in BookSides(n - 1) : Len(x) = n - 1},
                         l \in BookLevels}

\* One side is quoted to its full length, the other by its best level.
OrderBooks ==
    LET long == BookSides(MaxBookLevels)
        short == BookSides(1)
    IN  {[bids |-> b, asks |-> a] : b \in short, a \in long}
        \cup {[bids |-> b, asks |-> a] : b \in long, a \in short}

Notionals == {0, 50, 150, 1200}

OrderSides == {"buy", "sell"}

NoEstimate == [reason |-> "none"]

SlipInit ==
    \E ob \in OrderBooks, sd \in OrderSides, amt \in Notionals :
        slip = [orderbook |-> ob, side |-> sd, amount_usdt |-> amt,
                estimate |-> NoEstimate]

\* levels[:orderbook_depth]
DepthSlice(levels) ==
    SubSeq(levels, 1,
           IF Len(levels) < SLIPPAGE_ORDERBOOK_DEPTH THEN Len(levels)
           ELSE SLIPPAGE_ORDERBOOK_DEPTH)

\* The loop over the levels from the k-th on.  w holds remaining_usdt,
\* total_cost, levels_used and total_base_filled, the last as the whole
\* amounts taken plus the quotient part / price of the closing level.
RECURSIVE WalkLevels(_, _, _)
WalkLevels(levels, k, w) ==
    IF k > Len(levels) \/ w.remaining <= 0 THEN w
    ELSE LET price == levels[k][1]
             amount == levels[k][2]
         IN  IF price <= 0 \/ amount <= 0
             THEN WalkLevels(levels, k + 1, w)
             ELSE IF price * amount >= w.remaining
             THEN WalkLevels(levels, k + 1,
                      [remaining |-> 0,
                       cost |-> w.cost + w.remaining,
                       used |-> w.used + 1,
                       whole |-> w.whole,
                       part |-> w.remaining, price |-> price])
             ELSE WalkLevels(levels, k + 1,
                      [w EXCEPT !.remaining = @ - price * amount,
                                !.cost = @ + price * amount,
                                !.used = @ + 1,
                                !.whole = @ + amount])

\* total_cost / total_base_filled
EffectivePrice(w) == Frac(w.cost * w.price, w.whole * w.price + w.part)

\* (a - b) / b for b > 0
RelDiff(a, b) == Frac(a.n * b.d - b.n * a.d, a.d * b.n)

\* slippage_pct: signed, positive when the fill is worse than the mid.
SlippagePct(side_label, effective, mid) ==
    IF side_label = "buy" THEN RelDiff(effective, mid)
    ELSE Frac(-(RelDiff(effective, mid).n), RelDiff(effective, mid).d)

Rejected(reason, w) ==
    [reason |-> reason, is_acceptable |-> FALSE,
     depth_levels_used |-> w.used, remaining |-> w.remaining,
     effective_price |-> NoneV, slippage_pct |-> DEFAULT_SLIPPAGE_PCT]

Walked(levels, amount_usdt) ==
    WalkLevels(DepthSlice(levels), 1,
               [remaining |-> amount_usdt, cost |-> 0, used |-> 0,
                whole |-> 0, part |-> 0, price |-> 1])

NotWalked(amount_usdt) ==
    [remaining |-> amount_usdt, cost |-> 0, used |-> 0,
     whole |-> 0, part |-> 0, price |-> 1]

Estimated(side_label, mid, w) ==
    LET effective == EffectivePrice(w)
        slippage_pct == SlippagePct(side_label, effective, mid)
        full == w.remaining <= 0
        within == Le(slippage_pct, MAX_ACCEPTABLE_SLIPPAGE_PCT)
    IN  [reason |-> IF ~full THEN "insufficient"
                    ELSE IF ~within THEN "slippage" ELSE "ok",
         is_acceptable |-> full /\ within,
         depth_levels_used |-> w.used, remaining |-> w.remaining,
         effective_price |-> effective, slippage_pct |-> slippage_pct]

EstimateSlippage(orderbook, side, amount_usdt) ==
    LET side_label == IF side = "buy" THEN "buy" ELSE "sell"
        levels == IF side_label = "buy" THEN orderbook.asks
                  ELSE orderbook.bids
        best_bid == IF orderbook.bids # <<>> THEN orderbook.bids[1][1] ELSE 0
        best_ask == IF orderbook.asks # <<>> THEN orderbook.asks[1][1] ELSE 0
    IN  IF best_bid <= 0 \/ best_ask <= 0
        THEN Rejected("invalid", NotWalked(amount_usdt))
        ELSE IF levels = <<>>
        THEN Rejected("empty", NotWalked(amount_usdt))
        ELSE IF Walked(levels, amount_usdt).whole = 0
                /\ Walked(levels, amount_usdt).part = 0
        THEN Rejected("nofill", Walked(levels, amount_usdt))
        ELSE Estimated(side_label, Frac(best_bid + best_ask, 2),
                       Walked(levels, amount_usdt))

EstimateSlippageCall ==
    /\ slip # <<>>
    /\ slip.estimate = NoEstimate
    /\ slip' = [slip EXCEPT !.estimate =
                    EstimateSlippage(slip.orderbook, slip.side,
                                     slip.amount_usdt)]
    /\ UNCHANGED nonSlip

SlipNext == EstimateSlippageCall

SpecSlippageInit ==
    SlipInit /\ CoreIdle /\ TickIdle /\ RedisIdle /\ HbIdle /\ MlIdle
        /\ LoopsIdle /\ LateIdle

SpecSlippage == SpecSlippageInit /\ [][SlipNext]_vars

RECURSIVE LevelsValue(_)
LevelsValue(levels) ==
    IF levels = <<>> THEN 0
    ELSE (IF Head(levels)[1] > 0 /\ Head(levels)[2] > 0
          THEN Head(levels)[1] * Head(levels)[2] ELSE 0)
         + LevelsValue(Tail(levels))

\* The side of the book that the order hits.
HitSide(s) == IF s.side = "buy" THEN s.orderbook.asks ELSE s.orderbook.bids

\* The whole notional is filled within the first SLIPPAGE_ORDERBOOK_DEPTH
\* levels of the side being hit.
FilledWithinDepth(s) == LevelsValue(DepthSlice(HitSide(s))) >= s.amount_usdt

BookMid(s) == Frac(s.orderbook.bids[1][1] + s.orderbook.asks[1][1], 2)

\* |effective_price - mid| / mid does not exceed the configured maximum.
AbsSlippageWithinMax(s) ==
    /\ s.orderbook.bids # <<>> /\ s.orderbook.asks # <<>>
    /\ s.orderbook.bids[1][1] > 0 /\ s.orderbook.asks[1][1] > 0
    /\ IsNum(s.estimate.effective_price)
    /\ LET r == RelDiff(s.estimate.effective_price, BookMid(s))
       IN  Le(Frac(Abs(r.n), r.d), MAX_ACCEPTABLE_SLIPPAGE_PCT)

\* C26: for every order book, side and notional, estimate_slippage walks
\* at most SLIPPAGE_ORDERBOOK_DEPTH levels of the side being hit, and the
\* estimate is acceptable if and only if the whole notional is filled
\* within those levels and |effective_price - mid| / mid is at most the
\* configured maximum; every other estimate is rejected with a liquidity
\* or a slippage reason.
C26_AcceptableIffFilledWithinSlippage ==
    slip.estimate # NoEstimate =>
        /\ slip.estimate.depth_levels_used <= SLIPPAGE_ORDERBOOK_DEPTH
        /\ slip.estimate.is_acceptable <=>
              (FilledWithinDepth(slip) /\ AbsSlippageWithinMax(slip))
        /\ ~slip.estimate.is_acceptable =>
              slip.estimate.reason \in
                  {"invalid", "empty", "nofill", "insufficient", "slippage"}

\* A buy is accepted at an effective price 10% under the mid of a crossed
\* book.
C26_FarFromMidAccepted ==
    /\ slip.estimate # NoEstimate
    /\ slip.side = "buy"
    /\ slip.orderbook = [bids |-> <<(<<110, 9>>)>>, asks |-> <<(<<90, 1>>)>>]
    /\ slip.amount_usdt = 50
    /\ slip.estimate.is_acceptable
    /\ slip.estimate.effective_price = Frac(4500, 50)

\* ---------------------------------------------------------------------
\* strategies/ml_predictor.py, OnlinePredictor: the sample buffer
\* (a deque with maxlen, 5000 in the code), _last_train_count and the
\* retraining that add_training_sample starts.  The model keeps, beside
\* the fields of the code, the number of samples ever added and that
\* number at the last training.
\* ---------------------------------------------------------------------

SAMPLE_CAPACITY          == 6   \* deque(maxlen=5000)
MIN_SAMPLES_FOR_TRAINING == 2   \* MLConfig.min_samples_for_training (100)
RETRAIN_INTERVAL         == 2   \* MLConfig.retrain_interval_samples (50)

MaxSamplesAdded == 16           \* add_training_sample calls of one run

TrainerInit ==
    \E has_model \in BOOLEAN, retrain_on_exit \in BOOLEAN :
        ml = [has_model |-> has_model,
              retrain_on_exit |-> retrain_on_exit,
              samples |-> 0, last_train_count |-> 0,
              added |-> 0, added_at_train |-> 0,
              retrain |-> "none"]

\* self._samples.append(...) on a deque with maxlen: the length stops at
\* the capacity, the oldest sample leaves.
DequeAppendLen(n) == IF n < SAMPLE_CAPACITY THEN n + 1 ELSE SAMPLE_CAPACITY

\* The condition under which add_training_sample calls _retrain.
ShouldRetrain(len, last_train_count) ==
    /\ len >= MIN_SAMPLES_FOR_TRAINING
    /\ len - last_train_count >= RETRAIN_INTERVAL

\* _retrain(): nothing without a model or with too few samples; a fit
\* that raises is logged and leaves _last_train_count alone.
Retrain(p, fit_ok) ==
    IF ~p.has_model \/ p.samples < MIN_SAMPLES_FOR_TRAINING
    THEN [p EXCEPT !.retrain = "skipped"]
    ELSE IF ~fit_ok THEN [p EXCEPT !.retrain = "failed"]
    ELSE [p EXCEPT !.last_train_count = p.samples,
                   !.added_at_train = p.added,
                   !.retrain = "trained"]

\* add_training_sample(features, direction, confidence, pnl)
AddTrainingSample ==
    /\ ml # <<>>
    /\ "samples" \in DOMAIN ml
    /\ ml.added < MaxSamplesAdded
    /\ \E fit_ok \in BOOLEAN :
         ml' = IF ~ml.retrain_on_exit THEN [ml EXCEPT !.retrain = "off"]
               ELSE LET p == [ml EXCEPT !.samples = DequeAppendLen(ml.samples),
                                        !.added = ml.added + 1,
                                        !.retrain = "none"]
                    IN  IF ShouldRetrain(p.samples, p.last_train_count)
                        THEN Retrain(p, fit_ok)
                        ELSE p
    /\ UNCHANGED nonMl

TrainerNext == AddTrainingSample

SpecTrainerInit ==
    TrainerInit /\ CoreIdle /\ TickIdle /\ RedisIdle /\ HbIdle /\ SlipIdle
        /\ LoopsIdle /\ LateIdle

SpecTrainer == SpecTrainerInit /\ [][TrainerNext]_vars

\* C27: over any number of add_training_sample calls, also once the
\* buffer is full, a call that leaves at least MIN_SAMPLES_FOR_TRAINING
\* samples stored and at least RETRAIN_INTERVAL samples added since the
\* last training retrains the model.
C27_RetrainedWhenDue ==
    (/\ ml.has_model /\ ml.retrain_on_exit
     /\ ml.added > 0
     /\ ml.samples >= MIN_SAMPLES_FOR_TRAINING
     /\ ml.added - ml.added_at_train >= RETRAIN_INTERVAL)
        => ml.retrain \in {"trained", "failed"}

\* The buffer is full, RETRAIN_INTERVAL samples have come in since the
\* last training, and the call has not retrained.
C27_FullBufferNeverRetrains ==
    /\ ml.has_model /\ ml.retrain_on_exit
    /\ ml.samples = SAMPLE_CAPACITY
    /\ ml.last_train_count = SAMPLE_CAPACITY
    /\ ml.added - ml.added_at_train >= RETRAIN_INTERVAL
    /\ ml.retrain = "none"

\* ---------------------------------------------------------------------
\* strategies/ml_predictor.py, SignalFilter.filter_signal with
\* OnlinePredictor.predict_direction: a pure function of the rule
\* signals, the rule confidence, the configuration and the state of the
\* model (missing, not trained, trained on one class, raising, or
\* trained with predict_proba = [1 - p, p]).  Probabilities are exact
\* fractions.
\* ---------------------------------------------------------------------

ML_MIN_CONFIDENCE == Frac(6, 10)

ENSEMBLE_WEIGHT == Frac(4, 10)

Half == Frac(5, 10)

ProfitProbs == {Frac(0, 10), Half, Frac(6, 10), Frac(7, 10), Frac(10, 10)}

ModelStates ==
    {[kind |-> k, p |-> Half] : k \in {"none", "untrained", "one_class",
                                        "raises"}}
    \cup {[kind |-> "trained", p |-> p] : p \in ProfitProbs}

RuleConfidences == {Frac(0, 100), Frac(72, 100)}

NoSignalOut == [filtered_long |-> FALSE, filtered_short |-> FALSE,
                ensemble_conf |-> NoneV, done |-> FALSE]

FilterInit ==
    \E en \in BOOLEAN, ls \in BOOLEAN, ss \in BOOLEAN,
       rc \in RuleConfidences, mo \in ModelStates :
        ml = [enabled |-> en, long_signal |-> ls, short_signal |-> ss,
              rule_confidence |-> rc, model |-> mo, out |-> NoSignalOut]

\* predict_direction: <<long_probability, short_probability>>
PredictDirection(enabled, model) ==
    IF ~enabled \/ model.kind # "trained" THEN <<Half, Half>>
    ELSE <<model.p, Frac(model.p.d - model.p.n, model.p.d)>>

\* (1 - weight) * rule_confidence + weight * ml_conf
EnsembleConf(rule_confidence, ml_conf) ==
    Frac((ENSEMBLE_WEIGHT.d - ENSEMBLE_WEIGHT.n) * rule_confidence.n * ml_conf.d
            + ENSEMBLE_WEIGHT.n * ml_conf.n * rule_confidence.d,
         ENSEMBLE_WEIGHT.d * rule_confidence.d * ml_conf.d)

\* The filter with the rule signals left out of the decision.
FilterSignalUngated(s) ==
    LET probs == PredictDirection(s.enabled, s.model)
    IN  [filtered_long |-> ~Lt(probs[1], ML_MIN_CONFIDENCE),
         filtered_short |-> ~Lt(probs[2], ML_MIN_CONFIDENCE),
         ensemble_conf |-> s.rule_confidence, done |-> TRUE]

\* filter_signal(features, long_signal, short_signal, rule_confidence)
FilterSignal(s) ==
    IF ~s.enabled
    THEN [filtered_long |-> s.long_signal, filtered_short |-> s.short_signal,
          ensemble_conf |-> s.rule_confidence, done |-> TRUE]
    ELSE LET probs == PredictDirection(s.enabled, s.model)
             filtered_long ==
                 IF s.long_signal /\ Lt(probs[1], ML_MIN_CONFIDENCE)
                 THEN FALSE ELSE s.long_signal
             filtered_short ==
                 IF s.short_signal /\ Lt(probs[2], ML_MIN_CONFIDENCE)
                 THEN FALSE ELSE s.short_signal
             ml_conf == IF filtered_long THEN probs[1]
                        ELSE IF filtered_short THEN probs[2] ELSE Half
         IN  [filtered_long |-> filtered_long,
              filtered_short |-> filtered_short,
              ensemble_conf |-> EnsembleConf(s.rule_confidence, ml_conf),
              done |-> TRUE]

FilterSignalCall ==
    /\ ml # <<>>
    /\ "out" \in DOMAIN ml
    /\ ~ml.out.done
    /\ ml' = [ml EXCEPT !.out = FilterSignal(ml)]
    /\ UNCHANGED nonMl

FilterNext == FilterSignalCall

SpecSignalFilterInit ==
    FilterInit /\ CoreIdle /\ TickIdle /\ RedisIdle /\ HbIdle /\ SlipIdle
        /\ LoopsIdle /\ LateIdle

SpecSignalFilter == SpecSignalFilterInit /\ [][FilterNext]_vars

\* The probability that the model gives the long and the short direction.
LongProb(s) == PredictDirection(s.enabled, s.model)[1]

ShortProb(s) == PredictDirection(s.enabled, s.model)[2]

\* C28: filter_signal never turns a false rule signal into a true one;
\* with the ML filter enabled the filtered long (short) signal is true
\* exactly when the rule signal is true and the model's probability for
\* that direction is at least ML_MIN_CONFIDENCE; with the filter disabled
\* the signals and the confidence pass through unchanged.
C28_FilterOnlyRemovesSignals ==
    ml.out.done =>
        /\ ml.out.filtered_long => ml.long_signal
        /\ ml.out.filtered_short => ml.short_signal
        /\ ml.enabled =>
              /\ ml.out.filtered_long <=>
                    (ml.long_signal /\ Le(ML_MIN_CONFIDENCE, LongProb(ml)))
              /\ ml.out.filtered_short <=>
                    (ml.short_signal /\ Le(ML_MIN_CONFIDENCE, ShortProb(ml)))
        /\ ~ml.enabled =>
              /\ ml.out.filtered_long = ml.long_signal
              /\ ml.out.filtered_short = ml.short_signal
              /\ ml.out.ensemble_conf = ml.rule_confidence

\* Both rule signals are set, the trained model gives the long direction
\* 0.7, and the filter has kept the long signal and removed the short one.
C28_ShortFilteredLongKept ==
    /\ ml.out.done
    /\ ml.enabled /\ ml.long_signal /\ ml.short_signal
    /\ ml.model = [kind |-> "trained", p |-> Frac(7, 10)]
    /\ ml.out.filtered_long /\ ~ml.out.filtered_short

\* ---------------------------------------------------------------------
\* data/cache.py poll_ohlcv and poll_ticker, data/websocket_stream.py
\* stream loops and close.  A task is suspended at one of its awaits and
\* runs from one await to the next in one step.  Sleeps are finite (every
\* backoff is capped), so the clock is left out; a pending exchange call
\* returns, raises, or is cancelled.  The four stream loops have the same
\* shape; two of them are modelled, in the order of the task dictionary.
\* ---------------------------------------------------------------------

PollTasks == {"poll_ohlcv", "poll_ticker"}

StreamOrder == <<"ticker", "ohlcv">>

StreamTasks == {StreamOrder[i] : i \in DOMAIN StreamOrder}

LoopTasks == PollTasks \cup StreamTasks

NewTask == [pc |-> "start", cancel |-> FALSE]

LoopsInit ==
    loops = [shutdown    |-> FALSE,
             active      |-> TRUE,
             ws_shutdown |-> FALSE,
             closer      |-> [pc |-> "idle", i |-> 1],
             task        |-> [t \in LoopTasks |-> NewTask]]

Terminated(l, t) == l.task[t].pc \in {"done", "cancelled"}

Suspended(l, t) == l.task[t].pc \in {"sleep", "fetch", "second", "watch"}

\* The loop condition without the shutdown event.
PollLoopRunsWhileActive(l) == l.active

\* while (k in bot.active_symbols) and (not bot._shutdown.is_set())
PollLoopRuns(l) == l.active /\ ~l.shutdown

\* while not self._shutdown.is_set()
StreamLoopRuns(l) == ~l.ws_shutdown

\* The top of the poll loop: the next await is the sleep.
PollEnter(l) == IF PollLoopRuns(l) THEN "sleep" ELSE "done"

\* The top of a stream loop: the next await is watch_*.
StreamEnter(l) == IF StreamLoopRuns(l) THEN "watch" ELSE "done"

\* The task starts and runs to its first await.
PollStart(t) ==
    /\ loops # <<>>
    /\ loops.task[t].pc = "start" /\ ~loops.task[t].cancel
    /\ loops' = [loops EXCEPT !.task[t].pc = PollEnter(loops)]
    /\ UNCHANGED nonLoops

\* asyncio.sleep(sleep_s) is over: fetch_ohlcv or fetch_ticker is called.
PollWake(t) ==
    /\ loops # <<>>
    /\ loops.task[t].pc = "sleep" /\ ~loops.task[t].cancel
    /\ loops' = [loops EXCEPT !.task[t].pc = "fetch"]
    /\ UNCHANGED nonLoops

\* The fetch returns or raises.  A result may lead to the second exchange
\* call of the iteration (the gap fetch of _heal_gaps, fetch_funding_rate);
\* an exception is caught and the loop goes to its condition.
PollFetchReturns(t) ==
    /\ loops # <<>>
    /\ loops.task[t].pc = "fetch" /\ ~loops.task[t].cancel
    /\ \E outcome \in {"more", "end", "error"} :
         loops' = [loops EXCEPT !.task[t].pc =
                      IF outcome = "more" THEN "second"
                      ELSE PollEnter(loops)]
    /\ UNCHANGED nonLoops

\* The second call returns or raises; both end the iteration.
PollSecondReturns(t) ==
    /\ loops # <<>>
    /\ loops.task[t].pc = "second" /\ ~loops.task[t].cancel
    /\ loops' = [loops EXCEPT !.task[t].pc = PollEnter(loops)]
    /\ UNCHANGED nonLoops

\* After the shutdown the pending call of a poll task may be cancelled.
PollCancelRequest(t) ==
    /\ loops # <<>>
    /\ loops.shutdown
    /\ Suspended(loops, t) /\ ~loops.task[t].cancel
    /\ loops' = [loops EXCEPT !.task[t].cancel = TRUE]
    /\ UNCHANGED nonLoops

\* CancelledError is no Exception: it leaves the loop and ends the task.
PollCancelled(t) ==
    /\ loops # <<>>
    /\ loops.task[t].cancel /\ ~Terminated(loops, t)
    /\ loops' = [loops EXCEPT !.task[t].pc = "cancelled"]
    /\ UNCHANGED nonLoops

StreamStart(t) ==
    /\ loops # <<>>
    /\ loops.task[t].pc = "start" /\ ~loops.task[t].cancel
    /\ loops' = [loops EXCEPT !.task[t].pc = StreamEnter(loops)]
    /\ UNCHANGED nonLoops

\* watch_* returns a message (callbacks run, the loop goes to its
\* condition) or raises (the loop sleeps for the reconnect backoff).
StreamWatchReturns(t) ==
    /\ loops # <<>>
    /\ loops.task[t].pc = "watch" /\ ~loops.task[t].cancel
    /\ \E ok \in BOOLEAN :
         loops' = [loops EXCEPT !.task[t].pc =
                      IF ok THEN StreamEnter(loops) ELSE "sleep"]
    /\ UNCHANGED nonLoops

\* The reconnect sleep is over.
StreamWake(t) ==
    /\ loops # <<>>
    /\ loops.task[t].pc = "sleep" /\ ~loops.task[t].cancel
    /\ loops' = [loops EXCEPT !.task[t].pc = StreamEnter(loops)]
    /\ UNCHANGED nonLoops

\* `except asyncio.CancelledError: raise`, and the same out of the sleep
\* of the exception handler.
StreamCancelled(t) ==
    /\ loops # <<>>
    /\ loops.task[t].cancel /\ ~Terminated(loops, t)
    /\ loops' = [loops EXCEPT !.task[t].pc = "cancelled"]
    /\ UNCHANGED nonLoops

\* bot._shutdown.set()
ShutdownSet ==
    /\ loops # <<>>
    /\ ~loops.shutdown
    /\ loops' = [loops EXCEPT !.shutdown = TRUE]
    /\ UNCHANGED nonLoops

\* The symbol leaves bot.active_symbols.
SymbolRemoved ==
    /\ loops # <<>>
    /\ loops.active
    /\ loops' = [loops EXCEPT !.active = FALSE]
    /\ UNCHANGED nonLoops

\* close(): the event is set, then the tasks are taken one by one.
WsCloseCall ==
    /\ loops # <<>>
    /\ loops.closer.pc = "idle"
    /\ loops' = [loops EXCEPT !.ws_shutdown = TRUE,
                              !.closer = [pc |-> "cancel", i |-> 1]]
    /\ UNCHANGED nonLoops

\* task.cancel() for the next task that is not done, then wait_for.
WsCloseCancel ==
    /\ loops # <<>>
    /\ loops.closer.pc = "cancel"
    /\ loops' =
         IF loops.closer.i > Len(StreamOrder)
         THEN [loops EXCEPT !.closer.pc = "closed"]
         ELSE IF Terminated(loops, StreamOrder[loops.closer.i])
         THEN [loops EXCEPT !.closer.i = @ + 1]
         ELSE [loops EXCEPT !.task[StreamOrder[loops.closer.i]].cancel = TRUE,
                            !.closer.pc = "wait"]
    /\ UNCHANGED nonLoops

\* wait_for(task, timeout=1.0) is over: the task is done or the second
\* has passed.
WsCloseWaited ==
    /\ loops # <<>>
    /\ loops.closer.pc = "wait"
    /\ loops' = [loops EXCEPT !.closer = [pc |-> "cancel",
                                          i |-> loops.closer.i + 1]]
    /\ UNCHANGED nonLoops

LoopsNext ==
    \/ \E t \in PollTasks : PollStart(t)
    \/ \E t \in PollTasks : PollWake(t)
    \/ \E t \in PollTasks : PollFetchReturns(t)
    \/ \E t \in PollTasks : PollSecondReturns(t)
    \/ \E t \in PollTasks : PollCancelRequest(t)
    \/ \E t \in PollTasks : PollCancelled(t)
    \/ \E t \in StreamTasks : StreamStart(t)
    \/ \E t \in StreamTasks : StreamWatchReturns(t)
    \/ \E t \in StreamTasks : StreamWake(t)
    \/ \E t \in StreamTasks : StreamCancelled(t)
    \/ ShutdownSet
    \/ SymbolRemoved
    \/ WsCloseCall
    \/ WsCloseCancel
    \/ WsCloseWaited

SpecLoopsInit ==
    LoopsInit /\ CoreIdle /\ TickIdle /\ RedisIdle /\ HbIdle /\ SlipIdle
        /\ MlIdle /\ LateIdle

\* The event loop runs every task that is ready: a sleep ends, a pending
\* exchange call returns, raises or is cancelled, and close goes on.
LoopsFairness ==
    /\ \A t \in PollTasks :
          /\ WF_vars(PollStart(t)) /\ WF_vars(PollWake(t))
          /\ WF_vars(PollFetchReturns(t)) /\ WF_vars(PollSecondReturns(t))
          /\ WF_vars(PollCancelled(t))
    /\ \A t \in StreamTasks :
          /\ WF_vars(StreamStart(t)) /\ WF_vars(StreamWatchReturns(t))
          /\ WF_vars(StreamWake(t)) /\ WF_vars(StreamCancelled(t))
    /\ WF_vars(WsCloseCancel) /\ WF_vars(WsCloseWaited)

SpecLoops == SpecLoopsInit /\ [][LoopsNext]_vars

SpecLoopsFair == SpecLoopsInit /\ [][LoopsNext]_vars /\ LoopsFairness

AllPollsTerminated == \A t \in PollTasks : Terminated(loops, t)

AllStreamsTerminated == \A t \in StreamTasks : Terminated(loops, t)

\* C29: once the shutdown signal is raised (the bot's shutdown event for
\* the poll loops, close for the stream loops) every poll_ohlcv,
\* poll_ticker and stream loop eventually terminates, provided each
\* pending exchange call returns or is cancelled; and the next step of a
\* stream task that has been cancelled ends the task by the cancellation
\* instead of reconnecting.
C29_LoopsTerminateAfterShutdown ==
    /\ loops.shutdown ~> AllPollsTerminated
    /\ loops.ws_shutdown ~> AllStreamsTerminated
    /\ [][\A t \in StreamTasks :
             (loops.task[t].cancel /\ loops'.task[t] # loops.task[t])
                 => loops'.task[t].pc = "cancelled"]_vars

\* Both signals are raised, every loop has ended, and the ticker stream
\* ended by its cancellation while the ohlcv stream left by its loop
\* condition.
C29_AllLoopsEnded ==
    /\ loops.shutdown /\ loops.ws_shutdown
    /\ AllPollsTerminated
    /\ loops.task["ticker"] = [pc |-> "cancelled", cancel |-> TRUE]
    /\ loops.task["ohlcv"] = [pc |-> "done", cancel |-> FALSE]
    /\ loops.task["poll_ohlcv"].pc = "done"
    /\ loops.closer.pc = "closed"

\* ---------------------------------------------------------------------
\* load_brain as a call that has to return: the loads of SpecLoad over
\* every initial set of files, together with the saves of the running
\* bot and the heal-forward save that load_brain awaits.  The event loop
\* runs every task that can take a step.
\* ---------------------------------------------------------------------

LoadSaveNext ==
    \/ LoadCall
    \/ LoadAcquire
    \/ LoadScan
    \/ LoadReturn
    \/ \E t \in Savers, force \in BOOLEAN : SaveCall(t, force)
    \/ \E t \in SaveIds : SaveAcquire(t)
    \/ \E t \in SaveIds : SaveOpenTmp(t)
    \/ \E t \in SaveIds : SaveWriteTmp(t)
    \/ \E t \in SaveIds : SaveRotUnlink(t)
    \/ \E t \in SaveIds : SaveRotMove(t)
    \/ \E t \in SaveIds : SaveMainBak(t)
    \/ \E t \in SaveIds : SaveTmpMain(t)
    \/ \E t \in SaveIds : SaveRollback(t)
    \/ \E t \in SaveIds : SaveUnlinkTmp(t)

\* What load_brain does once its scan of the files has ended is run by the
\* event loop whenever it can take a step: its return, and every step of
\* the heal-forward save it awaits.
LoadFairness ==
    /\ WF_vars(LoadReturn)
    /\ WF_vars(SaveStep("heal"))

\* A fresh process, a working disk, main and the newest backup present,
\* missing, corrupt or valid.
LoadFairInit ==
    /\ LoadInit
    /\ state = FreshState
    /\ ~diskFailed
    /\ \A i \in 2..MAX_BACKUPS : disk[BakPath(i)] = NoFile

SpecLoadFairInit ==
    LoadFairInit /\ LockIdle /\ CacheIdle /\ ExitIdle /\ PsycheIdle
        /\ ServicesIdle

SpecLoadFair == SpecLoadFairInit /\ [][LoadSaveNext]_vars /\ LoadFairness

\* C30: load_brain always terminates and releases the IO lock, with True
\* or False as its result, whatever main and the backup files hold, also
\* when the state comes from a backup and is healed forward: a call whose
\* scan of the files has ended (a bounded loop over main and the backups)
\* reaches its return with the lock released.
C30_LoadTerminates ==
    (ld.pc \in {"ret", "await_heal"})
        ~> (ld.pc = "done" /\ ioLock # "load")

\* load_brain has restored the state from a backup, holds the IO lock and
\* awaits its heal-forward save, and no task of the process can take a
\* step any more.
C30_LoadNeverReturns ==
    /\ ld.pc = "await_heal" /\ ld.src >= 1 /\ ld.result
    /\ ioLock = "load"
    /\ sv["heal"].pc = "acquire"
    /\ \A t \in Savers : sv[t].pc \in {"idle", "acquire"}
    /\ ~ENABLED LoadSaveNext

\* ---------------------------------------------------------------------
\* data/cache.py: WebSocket candles that the callback ignores.
\* ---------------------------------------------------------------------

\* The step is a call of update_from_ws_ohlcv with a candle that has a
\* positive close and a ts older than the last bar of the ring: the
\* branch `# else: old candle, ignore`.
WsPushIgnored ==
    /\ lastCall'.op = "ws"
    /\ lastCall'.candle.c > 0
    /\ ohlcv # <<>>
    /\ lastCall'.candle.ts < ohlcv[Len(ohlcv)].ts

\* C31: a WebSocket OHLCV push that is ignored because its ts is older
\* than the last stored bar leaves the freshness stamp of (K, tf) as it
\* was, so that a ring get_df(require_fresh=True) refused before the push
\* is refused after it.
C31_IgnoredPushKeepsStamp ==
    [][WsPushIgnored =>
          /\ lastPollMono' = lastPollMono
          /\ (GetDfResult(TRUE) = <<>> => GetDfResult(TRUE)' = <<>>)]_vars

\* An old candle has just been ignored, the ring is the one load_cache
\* restored, and the slot carries the stamp of this very instant, past
\* the staleness limit of every timeframe.
C31_IgnoredPushStamped ==
    /\ lastCall = [op |-> "ws", candle |-> [ts |-> 1, c |-> 2]]
    /\ ohlcv = <<[ts |-> 1, c |-> 1], [ts |-> 2, c |-> 1]>>
    /\ mono = 1802
    /\ lastPollMono = mono
    /\ GetDfResult(TRUE) = ohlcv

\* ---------------------------------------------------------------------
\* data/cache.py: the age of the stored price against the age of the
\* ticker stamp.
\* ---------------------------------------------------------------------

\* get_stale_report, the ticker entry of K: push(...) lists it unless
\* age <= limit.
TickerListedStale(t, in_position) ==
    TickerAge(t) = NeverStamped \/ TickerAge(t) > StaleLimit(in_position)

\* C32: whenever get_price(K) returns a stored last price, that price was
\* written within the staleness limit that applies (15 s in a position,
\* 60 s idle), and get_stale_report lists K's ticker as stale once no
\* price has been written for longer than the limit, under every
\* interleaving of ticker, order-book and trade updates.
C32_ReturnedPriceIsRecent ==
    /\ (tick.op = "get_price" /\ Lt(Num(0), tick.price)
           /\ tick.result = tick.price)
          => tick.now - tick.price_at <= StaleLimit(tick.in_position)
    /\ \A in_position \in BOOLEAN :
          tick.now - tick.price_at > StaleLimit(in_position)
              => TickerListedStale(tick, in_position)

\* get_price has returned, for a symbol in a position, a price written
\* 61 s earlier: an order-book update stamped the slot in between.
C32_OldPriceReturned ==
    /\ tick.op = "get_price" /\ tick.in_position
    /\ tick.result = Num(3) /\ tick.price = Num(3)
    /\ tick.price_at = 1 /\ tick.now = 62 /\ tick.stamp = 62
    /\ tick.bidask = <<Num(1), Num(1)>>
    /\ ~TickerListedStale(tick, TRUE)

\* ---------------------------------------------------------------------
\* execution/heartbeat.py: check_health as a call that returns a report.
\* ---------------------------------------------------------------------

\* C33: check_health, and with it trigger_alerts and get_health_summary,
\* returns a report that classifies every registered component as
\* healthy, stale or critical and does not raise, also for a component
\* that is registered and has not sent its first beat.
C33_CheckHealthNeverRaises ==
    hb.op = "trigger_alerts" => ~hb.raised

\* Right after initialize_heartbeat, before any beat, trigger_alerts has
\* been left by the exception of check_health.
C33_RaisedBeforeFirstBeat ==
    /\ hb.op = "trigger_alerts"
    /\ hb.raised
    /\ hb.now = HbTick
    /\ \A c \in ComponentNames : hb.comp[c] = NewHealth

\* ---------------------------------------------------------------------
\* execution/slippage_estimator.py, check_slippage_before_entry: the
\* pre-entry check of one entry.  The call has one await, the fetch of
\* the order book, which raises, returns nothing or returns a book.
\* ---------------------------------------------------------------------

EntrySides == {"long", "short"}

FetchOutcomes == {"raise", "none", "book"}

\* Books the exchange may return: the side that is hit up to two levels
\* long, the other side quoted by its best level or empty.
PreEntryBooks ==
    {ob \in OrderBooks : Len(ob.bids) <= 1 /\ Len(ob.asks) <= 2}

NoBook == [bids |-> <<>>, asks |-> <<>>]

Zero == Frac(0, 1)

PreEntryInit ==
    \E en \in BOOLEAN, ex \in BOOLEAN, sd \in EntrySides, amt \in Notionals :
        slip = [pc |-> "start", enabled |-> en, has_ex |-> ex,
                side |-> sd, notional_usdt |-> amt,
                fetched |-> "no", orderbook |-> NoBook,
                should_enter |-> FALSE, slippage |-> Zero,
                reason |-> "none"]

\* "buy" if str(side).lower() in ("long", "buy") else "sell"
OrderSideOf(side) == IF side \in {"long", "buy"} THEN "buy" ELSE "sell"

\* A check that refuses the entry when it has no book to look at.
AfterFetchFailClosed(fetched, orderbook, side, notional_usdt) ==
    IF fetched = "raise"
    THEN [should_enter |-> FALSE, slippage |-> Zero, reason |-> "failed"]
    ELSE IF fetched = "none"
    THEN [should_enter |-> FALSE, slippage |-> Zero, reason |-> "nobook"]
    ELSE LET e == EstimateSlippage(orderbook, OrderSideOf(side), notional_usdt)
         IN  [should_enter |-> e.is_acceptable, slippage |-> e.slippage_pct,
              reason |-> e.reason]

\* check_slippage_before_entry from the answer of fetch_order_book to the
\* return: `except Exception` and `if not orderbook` return True with
\* slippage 0.0, a book returns the verdict of its estimate.
AfterFetch(fetched, orderbook, side, notional_usdt) ==
    IF fetched = "raise"
    THEN [should_enter |-> TRUE, slippage |-> Zero, reason |-> "failed"]
    ELSE IF fetched = "none"
    THEN [should_enter |-> TRUE, slippage |-> Zero, reason |-> "nobook"]
    ELSE LET e == EstimateSlippage(orderbook, OrderSideOf(side), notional_usdt)
         IN  [should_enter |-> e.is_acceptable, slippage |-> e.slippage_pct,
              reason |-> e.reason]

\* check_slippage_before_entry up to its await: the check is disabled,
\* the bot has no exchange, or the order book is requested.
PreEntryCall ==
    /\ slip # <<>> /\ "pc" \in DOMAIN slip
    /\ slip.pc = "start"
    /\ slip' = IF ~slip.enabled
               THEN [slip EXCEPT !.pc = "returned", !.should_enter = TRUE,
                                 !.reason = "disabled"]
               ELSE IF ~slip.has_ex
               THEN [slip EXCEPT !.pc = "returned", !.should_enter = TRUE,
                                 !.reason = "noexchange"]
               ELSE [slip EXCEPT !.pc = "fetch"]
    /\ UNCHANGED nonSlip

\* fetch_order_book raises or returns, and the call runs to its return.
PreEntryFetchReturns ==
    /\ slip # <<>> /\ "pc" \in DOMAIN slip
    /\ slip.pc = "fetch"
    /\ \E fetched \in FetchOutcomes, ob \in PreEntryBooks :
          /\ fetched # "book" => ob = NoBook
          /\ LET r == AfterFetch(fetched, ob, slip.side, slip.notional_usdt)
             IN  slip' = [slip EXCEPT !.pc = "returned",
                                      !.fetched = fetched,
                                      !.orderbook = ob,
                                      !.should_enter = r.should_enter,
                                      !.slippage = r.slippage,
                                      !.reason = r.reason]
    /\ UNCHANGED nonSlip

PreEntryNext ==
    \/ PreEntryCall
    \/ PreEntryFetchReturns

SpecPreEntryInit ==
    PreEntryInit /\ CoreIdle /\ TickIdle /\ RedisIdle /\ HbIdle /\ MlIdle
        /\ LoopsIdle /\ LateIdle

SpecPreEntry == SpecPreEntryInit /\ [][PreEntryNext]_vars

\* The estimate of the book the call fetched.
FetchedEstimate ==
    EstimateSlippage(slip.orderbook, OrderSideOf(slip.side),
                     slip.notional_usdt)

\* C34 as stated: with the check enabled and an exchange attached,
\* check_slippage_before_entry returns should_enter = True only when an
\* order book was fetched and its estimate is acceptable; a fetch that
\* fails or returns nothing does not approve the entry.
C34_ApprovedOnlyOnAcceptableBook ==
    (slip.pc = "returned" /\ slip.enabled /\ slip.has_ex
        /\ slip.should_enter)
       => (slip.fetched = "book" /\ FetchedEstimate.is_acceptable)

\* C34 as amended: with the check enabled and an exchange attached, the
\* call returns should_enter = False exactly when an order book was
\* fetched and its estimate is not acceptable; a fetch that fails or
\* returns nothing approves the entry with an estimated slippage of 0.0.
C34_RefusedOnlyOnUnacceptableBook ==
    (slip.pc = "returned" /\ slip.enabled /\ slip.has_ex)
       => /\ ~slip.should_enter
               <=> (slip.fetched = "book" /\ ~FetchedEstimate.is_acceptable)
          /\ slip.fetched # "book"
               => (slip.should_enter /\ slip.slippage = Zero)

\* The fetch of the order book raised and the entry of 1200 USDT was
\* approved.
C34_ApprovedWithoutBook ==
    /\ slip.pc = "returned" /\ slip.enabled /\ slip.has_ex
    /\ slip.fetched = "raise"
    /\ slip.notional_usdt = 1200
    /\ slip.should_enter

\* A book was fetched, its estimate found too little depth, and the entry
\* was refused.
C34_RefusedOnThinBook ==
    /\ slip.pc = "returned" /\ slip.enabled /\ slip.has_ex
    /\ slip.fetched = "book"
    /\ FetchedEstimate.reason = "insufficient"
    /\ ~slip.should_enter

\* ---------------------------------------------------------------------
\* brain/state.py: update_equity on an equity sample that is no number.
\* ---------------------------------------------------------------------

\* NaN, None and a string float() rejects.
BadEquities == {NaN, NoneV, Junk}

EquityFields(st) ==
    <<st.current_equity, st.peak_equity, st.current_drawdown_pct,
      st.max_drawdown>>

\* C35: update_equity called with a NaN, None or unparseable equity leaves
\* current_equity, peak_equity, current_drawdown_pct and max_drawdown as
\* they were: a bad equity sample never registers as a drawdown.  Stated
\* on every update_equity step of a session that such a sample produces.
C35_BadEquityChangesNothing ==
    [][\A bad \in BadEquities :
          (/\ trace.session
           /\ trace'.op = "update_equity"
           /\ trace'.pre = psyche
           /\ psyche' = UpdateEquity(psyche, bad, NowTs))
             => EquityFields(psyche') = EquityFields(psyche)]_vars

\* In a session with equity and peak at 2, update_equity(NaN) has set the
\* equity to 0 and both drawdown fields to 1.
C35_BadSampleIsFullDrawdown ==
    /\ trace.session
    /\ trace.op = "update_equity"
    /\ trace.pre.current_equity = Num(MaxEquity)
    /\ trace.pre.peak_equity = Num(MaxEquity)
    /\ trace.pre.max_drawdown = Num(0)
    /\ psyche = UpdateEquity(trace.pre, NaN, NowTs)
    /\ psyche.current_equity = Num(0)
    /\ NumEq(psyche.current_drawdown_pct, Num(1))
    /\ NumEq(psyche.max_drawdown, Num(1))

\* ---------------------------------------------------------------------
\* data/cache.py, _derive_higher_tf: the 1m, 5m and 15m rings of one
\* symbol K with their freshness stamps.  Candle times are minutes, the
\* clock counts seconds; one clock stands for time.time() and
\* time.monotonic().
\* ---------------------------------------------------------------------

DERIVE_MIN_ROWS == 3           \* rows of 1m the derivation asks for (200)
DERIVE_MIN_INTERVAL_SEC == 30  \* least time between two derivations

MaxDerivedCalls == 3   \* polls and pushes in one behaviour

DeriveMinutes == {0, 5, 15, 30}

DeriveGrid == {1800, 1831, 1930, 2500}

DeriveRows == [ts : DeriveMinutes, c : {1}]

\* Answers of fetch_ohlcv(K, "1m"): normalized rows in ascending order.
DeriveFetches ==
    {q \in UNION {[1..n -> DeriveRows] : n \in 0..MAX_CANDLES} :
        StrictlyIncreasing(q)}

\* Answers of a direct fetch of 5m or 15m rows.
DirectFetches ==
    {<<[ts |-> 0, c |-> 1]>>, <<[ts |-> 0, c |-> 1], [ts |-> 15, c |-> 1]>>}

\* Answers to the fetches of _heal_gaps.
HealAnswers == {<<>>, <<[ts |-> 5, c |-> 1]>>}

\* Candles the 1m stream pushes; a close of 0 is rejected.
DeriveWsCandles == [ts : {15, 30}, c : {0, 2}]

DerivedInit ==
    \E direct \in BOOLEAN :
        derived = [ring |-> [tf \in Tfs |-> <<>>],
                   stamp |-> [tf \in Tfs |-> 0],
                   last_derive |-> 0,
                   now |-> 1800,
                   direct |-> direct,
                   pending |-> FALSE,
                   calls |-> 0,
                   op |-> "none", wrote |-> FALSE]

\* df.resample(w).agg(c = "last").dropna() on rows in ascending order.
RECURSIVE Resample(_, _)
Resample(rows, w) ==
    IF rows = <<>> THEN <<>>
    ELSE LET b == (Head(rows).ts \div w) * w
             same == SelectSeq(rows, LAMBDA r : (r.ts \div w) * w = b)
             rest == SelectSeq(rows, LAMBDA r : (r.ts \div w) * w # b)
         IN  <<[ts |-> b, c |-> same[Len(same)].c]>> \o Resample(rest, w)

\* The bar that is still open is dropped when more than two bars exist.
DropOpenBar(df, now, limit_sec) ==
    IF Len(df) > 2 /\ now - df[Len(df)].ts * 60 < limit_sec
    THEN SubSeq(df, 1, Len(df) - 1)
    ELSE df

\* _derive_higher_tf(k) on the oracle d.
DeriveHigherTf(d) ==
    IF Len(d.ring["1m"]) < DERIVE_MIN_ROWS THEN d
    ELSE IF d.now - d.last_derive < DERIVE_MIN_INTERVAL_SEC THEN d
    ELSE LET df_5m == DropOpenBar(Resample(FrameOf(d.ring["1m"]), 5),
                                  d.now, 60)
             df_15m == DropOpenBar(Resample(df_5m, 15), d.now, 120)
         IN  [d EXCEPT !.last_derive = d.now,
                       !.ring["5m"] = TailN(df_5m, MAX_CANDLES),
                       !.ring["15m"] = TailN(df_15m, MAX_CANDLES),
                       !.wrote = TRUE]

\* get_cache_age(K, tf) on the oracle d.
DerivedAge(d, tf) ==
    IF d.stamp[tf] > 0
    THEN (IF d.now - d.stamp[tf] >= 0 THEN d.now - d.stamp[tf] ELSE 0)
    ELSE NeverStamped

\* get_df(K, tf, require_fresh) on the oracle d.
DerivedGetDf(d, tf, require_fresh) ==
    IF require_fresh
          /\ (DerivedAge(d, tf) = NeverStamped
                 \/ DerivedAge(d, tf) > TfStaleSec(tf))
    THEN <<>>
    ELSE FrameOf(d.ring[tf])

\* get_stale_report: the ohlcv entry of (K, tf) is listed.
OhlcvListedStale(d, tf) ==
    DerivedAge(d, tf) = NeverStamped \/ DerivedAge(d, tf) > TfStaleSec(tf)

Called(d, op) == [d EXCEPT !.op = op, !.wrote = FALSE]

Fed(d, op) == [Called(d, op) EXCEPT !.calls = @ + 1]

\* poll_ohlcv(K, "1m"), one turn from the answer of fetch_ohlcv: store
\* and stamp, _heal_gaps with the answer heal to its fetches, then
\* _derive_higher_tf.
DerivedPoll1m ==
    /\ derived # <<>>
    /\ derived.calls < MaxDerivedCalls
    /\ \E ok \in BOOLEAN, rows \in DeriveFetches, heal \in HealAnswers :
          /\ (GapSinces(rows) = <<>> \/ Len(rows) < 3) => heal = <<>>
          /\ derived' =
               IF ~ok \/ rows = <<>> THEN Fed(derived, "poll_1m")
               ELSE DeriveHigherTf(
                      [Fed(derived, "poll_1m") EXCEPT
                          !.ring["1m"] =
                              TailN(NormalizeOhlcvRows(rows \o heal),
                                    MAX_CANDLES),
                          !.stamp["1m"] = derived.now])
    /\ UNCHANGED nonDerived

\* update_from_ws_ohlcv(K, "1m", candle): the ring, the stamp, and the
\* task created for _derive_higher_tf.
DerivedWs1m ==
    /\ derived # <<>>
    /\ derived.calls < MaxDerivedCalls
    /\ \E candle \in DeriveWsCandles :
          derived' =
             IF candle.c <= 0 THEN Fed(derived, "ws_1m")
             ELSE [Fed(derived, "ws_1m") EXCEPT
                      !.ring["1m"] = WsRows(derived.ring["1m"], candle),
                      !.stamp["1m"] = derived.now,
                      !.pending = TRUE]
    /\ UNCHANGED nonDerived

\* The task of _derive_higher_tf runs.
DerivedTaskRuns ==
    /\ derived # <<>>
    /\ derived.pending
    /\ derived' = DeriveHigherTf([Called(derived, "derive")
                                     EXCEPT !.pending = FALSE])
    /\ UNCHANGED nonDerived

\* A direct feed of 5m or 15m, where one exists: poll_ohlcv(K, tf) stores
\* the rows and stamps (K, tf).
DerivedPollDirect ==
    /\ derived # <<>>
    /\ derived.direct
    /\ derived.calls < MaxDerivedCalls
    /\ \E tf \in {"5m", "15m"}, rows \in DirectFetches :
          /\ derived' = [Fed(derived, "poll_direct") EXCEPT
                            !.ring[tf] = rows,
                            !.stamp[tf] = derived.now]
    /\ UNCHANGED nonDerived

DerivedClock ==
    /\ derived # <<>>
    /\ \E t \in DeriveGrid :
          /\ t > derived.now
          /\ derived' = [Called(derived, "clock") EXCEPT !.now = t]
    /\ UNCHANGED nonDerived

DerivedNext ==
    \/ DerivedPoll1m
    \/ DerivedWs1m
    \/ DerivedTaskRuns
    \/ DerivedPollDirect
    \/ DerivedClock

SpecDerivedInit ==
    DerivedInit /\ CoreIdle /\ TickIdle /\ RedisIdle /\ HbIdle /\ SlipIdle
        /\ MlIdle /\ LoopsIdle /\ BotIdle

SpecDerived == SpecDerivedInit /\ [][DerivedNext]_vars

\* C36: after _derive_higher_tf has written the 5m and 15m rings of K
\* from fresh 1m data (on a 1m poll or a 1m WebSocket push),
\* get_df(K, "5m", require_fresh=True) and
\* get_df(K, "15m", require_fresh=True) return those derived rings and
\* get_stale_report lists neither 5m nor 15m of K as stale, also when no
\* direct 5m or 15m feed exists.
C36_DerivedRingsAreFresh ==
    (derived.op \in {"poll_1m", "derive"} /\ derived.wrote) =>
        \A tf \in {"5m", "15m"} :
            /\ DerivedGetDf(derived, tf, TRUE) = FrameOf(derived.ring[tf])
            /\ ~OhlcvListedStale(derived, tf)

\* Without a direct feed, a 1m poll has just derived a 5m ring of two
\* bars, and get_df with require_fresh returns nothing for it.
C36_DerivedRingRefused ==
    /\ ~derived.direct
    /\ derived.op = "poll_1m" /\ derived.wrote
    /\ derived.stamp["1m"] = derived.now
    /\ Len(derived.ring["5m"]) = 2
    /\ DerivedGetDf(derived, "5m", TRUE) = <<>>
    /\ DerivedGetDf(derived, "5m", FALSE) = derived.ring["5m"]
    /\ OhlcvListedStale(derived, "15m")

\* ---------------------------------------------------------------------
\* data/cache.py, poll_ohlcv: the backoff of one poll task, its
\* fail_streak and its freshness stamp, one step per turn of the loop
\* (from the answer of fetch_ohlcv to the end of the loop body).
\* ---------------------------------------------------------------------

RATE_LIMIT_STEP_SEC == 60    \* backoff + 60.0 on 429/418
RATE_LIMIT_CAP_SEC  == 900
ERROR_STEP_SEC      == 10    \* backoff + 10.0 on other errors
ERROR_CAP_SEC       == 180
LOW_RATIO_STEP_SEC  == 30    \* backoff + 30.0 on a success ratio under 0.6
LOW_RATIO_CAP_SEC   == 300
RATIO_EVERY         == 30    \* turns between two looks at the ratio

MaxPollTurns == 30   \* turns of the loop in one behaviour

FetchResults == {"rows", "empty", "rate_limit", "error"}

Min(a, b) == IF a <= b THEN a ELSE b

BackoffInit ==
    loops = [backoff |-> 0, fail_streak |-> 0, stamp |-> 0,
             success_count |-> 0, total_count |-> 0, now |-> 0,
             op |-> "none"]

\* backoff = min(backoff + 10.0, 180.0)
BackoffAfterError(backoff) == Min(backoff + ERROR_STEP_SEC, ERROR_CAP_SEC)

\* backoff = min(backoff + 60.0, 900.0)
BackoffAfterRateLimit(backoff) ==
    Min(backoff + RATE_LIMIT_STEP_SEC, RATE_LIMIT_CAP_SEC)

\* if total_count % 30 == 0 and success_count / total_count < 0.6
LowRatioPenalty(l) ==
    IF l.total_count % RATIO_EVERY = 0
          /\ 10 * l.success_count < 6 * l.total_count
    THEN [l EXCEPT !.backoff = Min(@ + LOW_RATIO_STEP_SEC, LOW_RATIO_CAP_SEC)]
    ELSE l

\* One turn of poll_ohlcv: the sleep has ended (the clock has advanced),
\* fetch_ohlcv answers with rows, with nothing, or raises.
PollTurn(l, result) ==
    LET t == [l EXCEPT !.total_count = @ + 1, !.now = @ + 1, !.op = result]
    IN  LowRatioPenalty(
          CASE result = "rows" ->
                 [t EXCEPT !.stamp = t.now, !.fail_streak = 0,
                           !.success_count = @ + 1, !.backoff = 0]
            [] result = "empty" -> t
            [] result = "rate_limit" ->
                 [t EXCEPT !.fail_streak = @ + 1,
                           !.backoff = BackoffAfterRateLimit(@)]
            [] OTHER ->
                 [t EXCEPT !.fail_streak = @ + 1,
                           !.backoff = BackoffAfterError(@)])

PollTurnStep ==
    /\ loops # <<>> /\ "backoff" \in DOMAIN loops
    /\ loops.total_count < MaxPollTurns
    /\ \E result \in FetchResults : loops' = PollTurn(loops, result)
    /\ UNCHANGED nonLoops

BackoffNext == PollTurnStep

SpecBackoffInit ==
    BackoffInit /\ CoreIdle /\ TickIdle /\ RedisIdle /\ HbIdle /\ SlipIdle
        /\ MlIdle /\ LateIdle

SpecBackoff == SpecBackoffInit /\ [][BackoffNext]_vars

\* C37: in poll_ohlcv the backoff stays within [0, 900] seconds; a failed
\* fetch increments fail_streak by one and adds to the backoff without
\* lowering it (at most 60 s up to 900 s on 429/418, at most 10 s on
\* other errors); a successful non-empty fetch resets fail_streak and the
\* backoff to 0 and stamps the freshness clock.
C37_BackoffOnlyGrowsOnFailure ==
    [][/\ loops'.backoff >= 0 /\ loops'.backoff <= RATE_LIMIT_CAP_SEC
       /\ loops'.op \in {"rate_limit", "error"} =>
             /\ loops'.fail_streak = loops.fail_streak + 1
             /\ loops'.backoff >= loops.backoff
             /\ loops'.backoff - loops.backoff <=
                   (IF loops'.op = "rate_limit" THEN RATE_LIMIT_STEP_SEC
                    ELSE ERROR_STEP_SEC)
       /\ loops'.op = "rows" =>
             /\ loops'.fail_streak = 0
             /\ loops'.backoff = 0
             /\ loops'.stamp = loops'.now]_vars

\* After four rate limits the backoff was 240 s; a fifth fetch failed
\* with another error and the backoff is 180 s.
C37_ErrorLoweredBackoff ==
    /\ loops.op = "error"
    /\ loops.total_count = 5
    /\ loops.fail_streak = 5
    /\ loops.backoff = ERROR_CAP_SEC

\* ---------------------------------------------------------------------
\* data/websocket_stream.py: one stream loop in detail.  The four loops
\* differ in the exchange call, in the health key and in what they take
\* out of the message before the callbacks run; each keeps its own local
\* backoff and its own StreamHealth, so one task of any of the four kinds
\* is followed.  Seconds are exact fractions: 5 * 1.5^k is a binary
\* fraction with a numerator far below 2^53, so the floats of the code
\* take exactly these values.
\* ---------------------------------------------------------------------

RECONNECT_DELAY_SEC == 5          \* WebSocketConfig.reconnect_delay_sec

RECONNECT_MAX_DELAY_SEC == 300    \* WebSocketConfig.reconnect_max_delay_sec

RECONNECT_BACKOFF_MULT == Frac(3, 2)   \* reconnect_backoff_mult = 1.5

MaxStreamTurns == 14   \* exchange calls of the loop in one behaviour

NumCallbacks == 2      \* callbacks registered for the kind of the stream

StreamKinds == {"ticker", "ohlcv", "orderbook", "trades"}

\* What watch_* hands back: a message, or for the two loops that call
\* .get on it, something that is no dict.
MessageShapes(kind) ==
    IF kind \in {"ticker", "orderbook"} THEN {"dict", "no_dict"}
    ELSE {"dict"}

CallbackOutcomes == [1..NumCallbacks -> {"returns", "raises"}]

\* StreamHealth()
NewStreamHealth ==
    [last_update_ts |-> 0, last_error_ts |-> 0, last_error |-> "",
     reconnect_count |-> 0, message_count |-> 0, is_connected |-> FALSE]

\* After initialize(): connected, nothing subscribed.
ReconnectInit ==
    \E kind \in StreamKinds :
      loops = [ws_shutdown |-> FALSE, connected |-> TRUE, kind |-> kind,
               pc |-> "none", cancel |-> FALSE,
               backoff |-> Num(RECONNECT_DELAY_SEC), delay |-> Zero,
               attempt |-> 0, health |-> NewStreamHealth,
               called |-> <<>>, logged |-> 0, now |-> 0, op |-> "none"]

Scale(a, b) == Frac(a.n * b.n, a.d * b.d)

\* min(a, b) of Python: b only when b < a
PyMin(a, b) == IF Lt(b, a) THEN b ELSE a

\* The backoff without the cap.
NextBackoffUncapped(backoff) == Scale(backoff, RECONNECT_BACKOFF_MULT)

\* min(backoff * reconnect_backoff_mult, reconnect_max_delay_sec)
NextBackoff(backoff) ==
    PyMin(Scale(backoff, RECONNECT_BACKOFF_MULT), Num(RECONNECT_MAX_DELAY_SEC))

\* A callback called with no try around it.
CallbackUnguarded(outcome) ==
    IF outcome = "raises" THEN "escapes" ELSE "returned"

\* try: cb(...) / except Exception: log
CallbackGuarded(outcome) ==
    IF outcome = "raises" THEN "logged" ELSE "returned"

\* for cb in self._*_callbacks: from callback i on.  An exception that
\* escapes a callback ends the for loop.
RECURSIVE CallCallbacks(_, _)
CallCallbacks(outcomes, i) ==
    IF i > NumCallbacks
    THEN [called |-> <<>>, logged |-> 0, escaped |-> FALSE]
    ELSE IF CallbackGuarded(outcomes[i]) = "escapes"
    THEN [called |-> <<i>>, logged |-> 0, escaped |-> TRUE]
    ELSE LET rest == CallCallbacks(outcomes, i + 1)
         IN  [called |-> <<i>> \o rest.called,
              logged |-> rest.logged
                  + (IF CallbackGuarded(outcomes[i]) = "logged" THEN 1 ELSE 0),
              escaped |-> rest.escaped]

\* Every exception leaves the loop.
ExceptClauseReraisesAll(exc) == "raise"

\* except asyncio.CancelledError: raise / except Exception as e: ...
ExceptClause(exc) == IF exc = "cancelled" THEN "raise" ELSE "reconnect"

\* The handler of `except Exception` up to its await: the health record
\* takes the error and the task sleeps for the backoff.
OnStreamError(l) ==
    [l EXCEPT !.health.last_error_ts = l.now,
              !.health.last_error = "error",
              !.health.is_connected = FALSE,
              !.health.reconnect_count = @ + 1,
              !.attempt = @ + 1,
              !.delay = l.backoff,
              !.pc = "sleep"]

\* What an exception raised inside the try does to the task.
Raised(l, exc) ==
    IF ExceptClause(exc) = "reconnect" THEN OnStreamError(l)
    ELSE [l EXCEPT !.pc = IF exc = "cancelled" THEN "cancelled" ELSE "raised"]

\* The try body after watch_* has returned: health, backoff reset, the
\* fields of the message, the callbacks; then the loop condition.
OnStreamMessage(l, shape, outcomes) ==
    LET got == [l EXCEPT !.health.last_update_ts = l.now,
                         !.health.message_count = @ + 1,
                         !.health.is_connected = TRUE,
                         !.backoff = Num(RECONNECT_DELAY_SEC),
                         !.attempt = 0,
                         !.called = <<>>, !.logged = 0]
        cbs == CallCallbacks(outcomes, 1)
    IN  IF shape = "no_dict" THEN Raised(got, "error")
        ELSE IF cbs.escaped
        THEN Raised([got EXCEPT !.called = cbs.called,
                                !.logged = cbs.logged], "error")
        ELSE [got EXCEPT !.called = cbs.called, !.logged = cbs.logged,
                         !.pc = StreamEnter(got)]

Reconnecting == loops # <<>> /\ "attempt" \in DOMAIN loops

\* The task of the loop can be resumed normally.
Resumable(pc) == Reconnecting /\ loops.pc = pc /\ ~loops.cancel

\* subscribe_*: create_task and a fresh health record.
SubscribeStream ==
    /\ Reconnecting
    /\ loops.connected /\ loops.pc = "none"
    /\ loops' = [loops EXCEPT !.pc = "start", !.health = NewStreamHealth]
    /\ UNCHANGED nonLoops

\* The task runs to its first await.
StreamLoopBegins ==
    /\ Resumable("start")
    /\ loops' = [loops EXCEPT !.pc = StreamEnter(loops), !.op = "begin"]
    /\ UNCHANGED nonLoops

\* watch_* returns a message.
WatchReturnsMessage ==
    /\ Resumable("watch")
    /\ loops.now < MaxStreamTurns
    /\ \E shape \in MessageShapes(loops.kind), outcomes \in CallbackOutcomes :
         LET l == [loops EXCEPT !.now = @ + 1,
                                !.op = IF shape = "dict" THEN "message"
                                       ELSE "no_dict"]
         IN  loops' = OnStreamMessage(l, shape, outcomes)
    /\ UNCHANGED nonLoops

\* watch_* raises an exchange or network error.
WatchRaises ==
    /\ Resumable("watch")
    /\ loops.now < MaxStreamTurns
    /\ loops' = Raised([loops EXCEPT !.now = @ + 1, !.op = "error"], "error")
    /\ UNCHANGED nonLoops

\* asyncio.sleep(backoff) is over: the backoff grows and the loop goes
\* to its condition.
ReconnectSleepOver ==
    /\ Resumable("sleep")
    /\ LET l == [loops EXCEPT !.backoff = NextBackoff(@), !.op = "woke"]
       IN  loops' = [l EXCEPT !.pc = StreamEnter(l)]
    /\ UNCHANGED nonLoops

\* close() up to its first await: the event is set and a task that is
\* not done is cancelled.
CloseStreams ==
    /\ Reconnecting
    /\ ~loops.ws_shutdown
    /\ loops' = [loops EXCEPT !.ws_shutdown = TRUE,
                              !.cancel = loops.pc \in {"start", "watch", "sleep"}]
    /\ UNCHANGED nonLoops

\* The end of close(): self._connected = False.
CloseStreamsReturns ==
    /\ Reconnecting
    /\ loops.ws_shutdown /\ loops.connected
    /\ loops' = [loops EXCEPT !.connected = FALSE]
    /\ UNCHANGED nonLoops

\* The cancelled task is resumed: CancelledError comes out of its await.
StreamLoopCancelled ==
    /\ Reconnecting
    /\ loops.cancel /\ loops.pc \in {"start", "watch", "sleep"}
    /\ loops' = Raised([loops EXCEPT !.op = "cancel"], "cancelled")
    /\ UNCHANGED nonLoops

ReconnectNext ==
    \/ SubscribeStream
    \/ StreamLoopBegins
    \/ WatchReturnsMessage
    \/ WatchRaises
    \/ ReconnectSleepOver
    \/ CloseStreams
    \/ CloseStreamsReturns
    \/ StreamLoopCancelled

SpecReconnectInit ==
    ReconnectInit /\ CoreIdle /\ TickIdle /\ RedisIdle /\ HbIdle /\ SlipIdle
        /\ MlIdle /\ LateIdle

SpecReconnect == SpecReconnectInit /\ [][ReconnectNext]_vars

RECURSIVE Pow(_, _)
Pow(b, e) == IF e = 0 THEN 1 ELSE b * Pow(b, e - 1)

\* min(RECONNECT_DELAY_SEC * 1.5^(n-1), RECONNECT_MAX_DELAY_SEC)
ExpectedDelay(n) ==
    LET grown == Frac(RECONNECT_DELAY_SEC * Pow(3, n - 1), Pow(2, n - 1))
    IN  IF Le(grown, Num(RECONNECT_MAX_DELAY_SEC)) THEN grown
        ELSE Num(RECONNECT_MAX_DELAY_SEC)

\* C38: in every stream loop the sleep before the n-th reconnect attempt
\* in a row (n exchange errors with no message received in between) lasts
\* min(RECONNECT_DELAY_SEC * 1.5^(n-1), RECONNECT_MAX_DELAY_SEC) seconds,
\* and a received message puts the delay back to RECONNECT_DELAY_SEC.
C38_ReconnectDelayIsCappedPower ==
    Reconnecting =>
        /\ loops.pc = "sleep" =>
              /\ loops.attempt >= 1
              /\ NumEq(loops.delay, ExpectedDelay(loops.attempt))
        /\ loops.op = "message" =>
              NumEq(loops.backoff, Num(RECONNECT_DELAY_SEC))

\* A message has been received, then the exchange call has failed twelve
\* times in a row: the task sleeps for the cap of 300 s.
C38_SleepsAtCap ==
    /\ Reconnecting
    /\ loops.pc = "sleep" /\ loops.attempt = 12
    /\ loops.health.message_count >= 1
    /\ NumEq(loops.delay, Num(RECONNECT_MAX_DELAY_SEC))

\* After failures a message has come in and the next failure sleeps for
\* the initial delay again.
C38_DelayResetByMessage ==
    /\ Reconnecting
    /\ loops.pc = "sleep" /\ loops.attempt = 1
    /\ loops.health.reconnect_count >= 4
    /\ loops.health.message_count >= 1
    /\ NumEq(loops.delay, Num(RECONNECT_DELAY_SEC))

AllCallbacks == [i \in 1..NumCallbacks |-> i]

\* C39: a stream loop ends only by cancellation or by the shutdown event
\* (no error of the exchange call or of a callback ends it); an exchange
\* error marks the stream disconnected, adds one to reconnect_count and
\* puts the task into the backoff sleep, after which it calls watch_*
\* again unless the event is set; a callback that raises changes neither
\* the health record nor the delivery to the other callbacks.
C39_StreamLoopSurvivesErrors ==
    [][Reconnecting =>
         /\ loops'.pc # "raised"
         /\ loops'.pc = "cancelled" => loops.cancel
         /\ loops'.pc = "done" => loops'.ws_shutdown
         /\ loops'.op = "error" /\ loops'.now # loops.now =>
               /\ ~loops'.health.is_connected
               /\ loops'.health.reconnect_count
                     = loops.health.reconnect_count + 1
               /\ loops'.health.message_count = loops.health.message_count
               /\ loops'.pc = "sleep"
         /\ loops.pc = "sleep" /\ loops'.pc # "sleep" =>
               \/ loops'.pc = "watch"
               \/ loops'.pc = "done" /\ loops.ws_shutdown
               \/ loops'.pc = "cancelled"
         /\ loops'.op = "message" /\ loops'.now # loops.now =>
               /\ loops'.called = AllCallbacks
               /\ loops'.health =
                     [loops.health EXCEPT !.last_update_ts = loops'.now,
                                          !.message_count = @ + 1,
                                          !.is_connected = TRUE]
               /\ loops'.pc \in {"watch", "done"}
    ]_vars

\* The first callback has raised on a message and the second one was
\* called all the same; the stream is connected with no reconnect counted.
C39_CallbackRaisedLoopWatches ==
    /\ Reconnecting
    /\ loops.op = "message" /\ loops.pc = "watch"
    /\ loops.called = AllCallbacks /\ loops.logged = 1
    /\ loops.health.is_connected /\ loops.health.reconnect_count = 0
    /\ loops.health.message_count = 2

\* An exchange error after a message: the stream is disconnected, one
\* reconnect is counted and the task sleeps.
C39_ErrorThenSleep ==
    /\ Reconnecting
    /\ loops.op = "error" /\ loops.pc = "sleep"
    /\ ~loops.health.is_connected
    /\ loops.health.reconnect_count = 1 /\ loops.health.message_count = 1

\* ---------------------------------------------------------------------
\* bot-backend/bot/manager.py BotManager.start, stop and _run_loop, with
\* the signal callback of bot-backend/main.py (on_signal awaits
\* broadcast_message).  start has no await and is one step; stop and the
\* loop tasks are suspended at their awaits and run from one await to the
\* next in one step.  task.cancel() leaves a pending cancellation that is
\* raised out of the await the task is suspended at when it is resumed.
\* ---------------------------------------------------------------------

MaxLoopTasks == 2     \* successful start() calls in one behaviour

MaxStopCalls == 2     \* stop() calls in one behaviour

MaxIterations == 3    \* loop iterations of one task

NumConnections == 1   \* WebSocket clients in active_connections

LoopTaskIds == 1..MaxLoopTasks

StopCallIds == 1..MaxStopCalls

\* get_klines and strategy.calculate of one iteration
IterationInputs == {"hold", "signal", "raises"}

NoLoopTask == [pc |-> "none", cancel |-> FALSE, iters |-> 0, conn |-> 0]

\* BotManager(), with on_signal set by main.py
BotInit ==
    bot = [is_running |-> FALSE, client |-> FALSE, task |-> 0,
           loop |-> [t \in LoopTaskIds |-> NoLoopTask],
           stop |-> [s \in StopCallIds |-> [pc |-> "idle", task |-> 0]],
           quiet |-> FALSE, op |-> "none", who |-> 0]

BotUp == bot # <<>>

LoopDone(b, t) == b.loop[t].pc \in {"none", "ended"}

\* The awaits of _run_loop and of the callback it awaits.
LoopAwaits == {"send", "sleep", "err_sleep"}

\* A pending cancellation that ends the task when it is resumed: out of
\* the two sleeps and before the first step, never out of send_json.
Doomed(b, t) == b.loop[t].cancel /\ b.loop[t].pc \in {"new", "sleep", "err_sleep"}

\* The tasks that are inside the while loop and go on running its body.
Iterating(b) == {t \in LoopTaskIds : b.loop[t].pc \in LoopAwaits /\ ~Doomed(b, t)}

\* broadcast_message from connection i on: the next await is the next
\* send_json, and after the last one on_signal returns and the loop
\* awaits asyncio.sleep(60).
Broadcast(b, t, i) ==
    IF i > NumConnections THEN [b EXCEPT !.loop[t].pc = "sleep", !.loop[t].conn = 0]
    ELSE [b EXCEPT !.loop[t].pc = "send", !.loop[t].conn = i]

\* `except: pass` around send_json catches whatever is raised, the
\* cancellation too.
BroadcastExcept(exc) == "pass"

\* The top of the while loop and one body up to its first await.
RunLoop(b, t, input) ==
    IF ~b.is_running THEN [b EXCEPT !.loop[t].pc = "ended"]
    ELSE LET it == [b EXCEPT !.loop[t].iters = @ + 1]
         IN  CASE input = "raises" -> [it EXCEPT !.loop[t].pc = "err_sleep"]
               [] input = "hold"   -> [it EXCEPT !.loop[t].pc = "sleep"]
               [] OTHER            -> Broadcast(it, t, 1)

MayIterate(b, t) == ~b.is_running \/ b.loop[t].iters < MaxIterations

\* connect() has succeeded.
BotConnect ==
    /\ BotUp
    /\ ~bot.client
    /\ bot' = [bot EXCEPT !.client = TRUE, !.op = "connect", !.who = 0]
    /\ UNCHANGED nonBot

FreeTaskIds(b) == {t \in LoopTaskIds : b.loop[t].pc = "none"}

\* start(config)
StartCall ==
    /\ BotUp
    /\ bot' =
         IF bot.is_running \/ ~bot.client \/ FreeTaskIds(bot) = {}
         THEN [bot EXCEPT !.op = "start_false", !.who = 0]
         ELSE LET t == CHOOSE x \in FreeTaskIds(bot) :
                          \A y \in FreeTaskIds(bot) : x <= y
              IN  [bot EXCEPT !.is_running = TRUE, !.task = t,
                              !.loop[t].pc = "new", !.quiet = FALSE,
                              !.op = "start_true", !.who = t]
    /\ FreeTaskIds(bot) = {} => bot.is_running \/ ~bot.client
    /\ UNCHANGED nonBot

\* stop() up to its await, or to its return when nothing is awaited.
StopCall(s) ==
    /\ BotUp
    /\ bot.stop[s].pc = "idle"
    /\ \A r \in StopCallIds : r < s => bot.stop[r].pc # "idle"
    /\ bot' =
         IF ~bot.is_running
         THEN [bot EXCEPT !.stop[s].pc = "false", !.op = "stop_false", !.who = s]
         ELSE IF bot.task = 0 \/ LoopDone(bot, bot.task)
         THEN [bot EXCEPT !.is_running = FALSE, !.stop[s].pc = "true",
                          !.quiet = TRUE, !.op = "stop_true", !.who = s]
         ELSE [bot EXCEPT !.is_running = FALSE,
                          !.loop[bot.task].cancel = TRUE,
                          !.stop[s] = [pc |-> "await", task |-> bot.task],
                          !.op = "stop_awaits", !.who = s]
    /\ UNCHANGED nonBot

\* The awaited task is done: stop() prints and returns True.
StopReturns(s) ==
    /\ BotUp
    /\ bot.stop[s].pc = "await" /\ bot.loop[bot.stop[s].task].pc = "ended"
    /\ bot' = [bot EXCEPT !.stop[s].pc = "true", !.quiet = TRUE,
                          !.op = "stop_true", !.who = s]
    /\ UNCHANGED nonBot

\* The task runs for the first time.  The event loop resumes tasks in the
\* order they were made ready: a task cancelled before this one was
\* created is resumed first.
LoopBegins(t) ==
    /\ BotUp
    /\ bot.loop[t].pc = "new" /\ ~bot.loop[t].cancel
    /\ \A u \in LoopTaskIds : u < t => ~bot.loop[u].cancel
    /\ MayIterate(bot, t)
    /\ \E input \in IterationInputs :
         bot' = RunLoop([bot EXCEPT !.op = "loop", !.who = t], t, input)
    /\ UNCHANGED nonBot

\* send_json has returned or raised: the next connection.
SendReturns(t) ==
    /\ BotUp
    /\ bot.loop[t].pc = "send" /\ ~bot.loop[t].cancel
    /\ bot' = Broadcast([bot EXCEPT !.op = "sent", !.who = t], t,
                        bot.loop[t].conn + 1)
    /\ UNCHANGED nonBot

\* asyncio.sleep(60) or asyncio.sleep(10) is over: the loop condition and
\* the next body.
LoopSleepOver(t) ==
    /\ BotUp
    /\ bot.loop[t].pc \in {"sleep", "err_sleep"} /\ ~bot.loop[t].cancel
    /\ MayIterate(bot, t)
    /\ \E input \in IterationInputs :
         bot' = RunLoop([bot EXCEPT !.op = "loop", !.who = t], t, input)
    /\ UNCHANGED nonBot

\* The cancelled task is resumed.  Out of sleep(60) the CancelledError is
\* caught by `except asyncio.CancelledError: break`; out of sleep(10), in
\* the exception handler, and before the first step it ends the task as
\* it is; out of send_json it meets the except of broadcast_message.
LoopCancelDelivered(t) ==
    /\ BotUp
    /\ bot.loop[t].cancel /\ bot.loop[t].pc \in LoopAwaits \cup {"new"}
    /\ LET b == [bot EXCEPT !.loop[t].cancel = FALSE,
                            !.op = "cancelled", !.who = t]
       IN  bot' =
             IF bot.loop[t].pc = "send" /\ BroadcastExcept("cancelled") = "pass"
             THEN Broadcast(b, t, bot.loop[t].conn + 1)
             ELSE [b EXCEPT !.loop[t].pc = "ended"]
    /\ UNCHANGED nonBot

BotNext ==
    \/ BotConnect
    \/ StartCall
    \/ \E s \in StopCallIds : StopCall(s)
    \/ \E s \in StopCallIds : StopReturns(s)
    \/ \E t \in LoopTaskIds : LoopBegins(t)
    \/ \E t \in LoopTaskIds : SendReturns(t)
    \/ \E t \in LoopTaskIds : LoopSleepOver(t)
    \/ \E t \in LoopTaskIds : LoopCancelDelivered(t)

SpecBotInit ==
    BotInit /\ CoreIdle /\ TickIdle /\ RedisIdle /\ HbIdle /\ SlipIdle
        /\ MlIdle /\ LoopsIdle /\ DerivedIdle

SpecBot == SpecBotInit /\ [][BotNext]_vars

\* C40: under every interleaving of start() and stop() on one BotManager
\* at most one _run_loop task is running iterations, start() returns
\* False while a loop is running, and after a stop() has returned True no
\* iteration begins until the next successful start().
C40_OneLoopAtATime ==
    [][BotUp =>
         /\ Cardinality(Iterating(bot')) <= 1
         /\ bot'.op = "start_true" /\ bot'.task # bot.task =>
               Iterating(bot) = {}
         /\ bot.quiet /\ bot'.quiet =>
               \A t \in LoopTaskIds : bot'.loop[t].iters = bot.loop[t].iters
    ]_vars

\* stop() is still awaiting the first task, which has swallowed its
\* cancellation in broadcast_message and has begun another iteration
\* while the task of the second start() is running too.
C40_TwoLoopsRun ==
    /\ BotUp
    /\ bot.is_running /\ bot.task = 2
    /\ bot.stop[1] = [pc |-> "await", task |-> 1]
    /\ bot.op = "loop" /\ bot.who = 1
    /\ bot.loop[1].pc \in LoopAwaits /\ ~bot.loop[1].cancel
    /\ bot.loop[1].iters >= 2
    /\ bot.loop[2].pc \in LoopAwaits /\ bot.loop[2].iters >= 1

====
